---- MODULE Spec2Model ----
(***************************************************************************)
(* Verification model of the CIRIS GUI client:                             *)
(*   - the reasoning-stream batcher and task/thought aggregator            *)
(*     (apps/agui/app/billing/page.tsx, InteractPage),                     *)
(*   - the reasoning-stream read loop (connectStream),                     *)
(*   - the native-auth / setup-redirect state machine                      *)
(*     (apps/agui/contexts/AuthContext.tsx, AuthProvider).                 *)
(* Each component has its own specification over the shared variables.     *)
(***************************************************************************)
EXTENDS Integers, Sequences, FiniteSets, TLC

VARIABLES
    \* ---- InteractPage: batcher and aggregator ----
    pendingEvents,     \* pendingEventsRef.current: queued events, in arrival order
    batchTimeout,      \* batchTimeoutRef.current: "null" | "live" | "dead"
    taskObjs,          \* heap of TrackedTask objects, indexed by reference
    tasks,             \* React state `tasks`: Map task_id -> reference into taskObjs
    effectActive,      \* the SSE effect is mounted (its cleanup has not run)
    nextSeq,           \* arrival number given to the next queued event
    delivered,         \* history: events handed to the aggregator, in order
    prevTasks,         \* history: the Map `prev` of the last setTasks updater call
    prevDeep,          \* history: what `prev` held when that call began
    lastBatch,         \* history: the batch of the last processBatchedEvents call
    \* ---- InteractPage: connectStream read loop ----
    rdInput,           \* bytes of the response body not yet read
    rdState,           \* "idle" | "reading" | "done"
    decoderCarry,      \* bytes the TextDecoder holds back (an incomplete character)
    buffer,            \* `buffer`: the text after the last newline seen
    eventType,         \* `eventType`
    eventData,         \* `eventData`
    sseCalls,          \* history: the processSSEEvent(type, data) calls made
    rdRecords,         \* history: the records the server wrote to the stream
    rdCuts,            \* history: the kinds of chunk boundary met so far
    \* ---- AuthProvider ----
    serverSetup,       \* what /v1/setup/status has to report: "required" | "complete"
    pathname,          \* window.location.pathname of the loaded page
    page,              \* "none" | "loaded" | "mounted": AuthProvider's mount effect ran
    setupMounted,      \* SetupWizard's mount effect ran on this page
    ls,                \* localStorage
    ss,                \* sessionStorage
    now,               \* Date.now()
    sdkAuth,           \* cirisClient.isAuthenticated()
    user,              \* React state `user`
    loading,           \* React state `loading`
    calls,             \* the checkNativeAuth invocations of this page
    checkAuthPc,       \* checkAuth(): "idle" | "await_getMe" | "done"
    nativeEvents,      \* ciris_native_auth_ready events received by this page
    navPending,        \* window.location.href was assigned; the page will unload
    pageLoads,         \* pages loaded so far
    navs,              \* history: the navigations to /setup issued, with their time
    remoteCalls,       \* history: the remote requests issued by this page
    getMeResult,       \* history: how getMe settled in checkAuth ("none": not yet)
    logoutPc,          \* logout(): "idle" | "await_logout" | "done"
    \* ---- InteractPage: the SSE effect and its connections ----
    conns,             \* the connectStream invocations, in the order they began
    connCount,         \* number of connectStream invocations so far
    sseConnected,      \* React state `sseConnected`
    origin,            \* history: for each arrival number, where the event came from
    \* ---- SetupWizard ----
    wiz,               \* React state of the wizard
    wizLs,             \* localStorage keys the wizard reads
    wizLog,            \* history: completeSetup calls, requests sent, last exit
    \* ---- CIRISProxyClient ----
    proxyReq,          \* the request object the caller holds
    proxySent          \* history: the requests handed to fetch

aggVars == <<pendingEvents, batchTimeout, taskObjs, tasks, effectActive,
             nextSeq, delivered, prevTasks, prevDeep, lastBatch>>

rdVars == <<rdInput, rdState, decoderCarry, buffer, eventType, eventData,
            sseCalls, rdRecords, rdCuts>>

authVars == <<serverSetup, pathname, page, setupMounted, ls, ss, now, sdkAuth,
              user, loading, calls, checkAuthPc, nativeEvents, navPending, pageLoads, navs,
              remoteCalls, getMeResult, logoutPc>>

connVars == <<conns, connCount, sseConnected, origin>>

wizVars == <<wiz, wizLs, wizLog>>

proxyVars == <<proxyReq, proxySent>>

vars == <<aggVars, rdVars, authVars, connVars, wizVars, proxyVars>>

-----------------------------------------------------------------------------
(* Bounds *)

\* Number of events queued in one run.
MaxEvents == 3

\* ciris_native_auth_ready events dispatched to one page.
MaxNativeEvents == 2

\* Pages loaded in one browser session.
MaxPageLoads == 2

\* Clock steps in one run.
MaxTicks == 3

\* Clicks on Complete Setup in one run.
MaxSetupClicks == 2

\* Requests sent through one proxy client in one run.
MaxProxyCalls == 2

\* connectStream invocations in one run.
MaxConns == 2

\* Records read from the reasoning stream in one run.
MaxRecords == 3

-----------------------------------------------------------------------------
(* Values *)

\* A JavaScript `undefined` field.
Undefined == "undefined"

STAGE_NAMES ==
    {"thought_start", "snapshot_and_context", "dma_results",
     "aspdma_result", "conscience_result", "action_result"}

\* String.prototype.includes over strings held as sequences of fragments.
Includes(s, pat) ==
    \E i \in 1..(Len(s) - Len(pat) + 1) : SubSeq(s, i, i + Len(pat) - 1) = pat

\* An optional string field: absent (undefined), or a string.
Absent == [present |-> FALSE, s |-> <<>>]
Str(s) == [present |-> TRUE, s |-> s]

\* (x as string)?.includes(pat): undefined short-circuits to a falsy value.
OptIncludes(x, pat) == x.present /\ Includes(x.s, pat)

\* JavaScript falsiness of an id field (absent or empty).
Falsy(x) == x \in {Undefined, ""}

Ev(ty, th, ta, de, ae, ts) ==
    [event_type |-> ty, thought_id |-> th, task_id |-> ta,
     task_description |-> de, action_executed |-> ae, timestamp |-> ts]

\* The events the stream may carry: stage events of one thought in several
\* stages, with and without a description, a second thought and a second
\* task, terminal and non-terminal action results, two events of one stage
\* with different payloads, an unknown stage, and events without ids.
Events ==
    {Ev(ty, "H1", "T1", de, Absent, 1) :
        ty \in {"thought_start", "dma_results", "bogus_stage"},
        de \in {Undefined, "d1"}}
    \cup {Ev("thought_start", "H1", "T1", "d2", Absent, 2),
          Ev("thought_start", "H2", "T1", "d2", Absent, 1),
          Ev("thought_start", "H1", "T2", "d1", Absent, 1),
          Ev("action_result", "H1", "T1", Undefined, Str(<<"speak">>), 1),
          Ev("action_result", "H1", "T1", Undefined, Str(<<"task_complete">>), 1),
          Ev("action_result", "H2", "T1", Undefined,
             Str(<<"HandlerActionType.", "task_reject">>), 1),
          Ev("bogus_stage", "H1", "T1", Undefined, Str(<<"task_complete">>), 1),
          Ev("thought_start", Undefined, "T1", "d1", Absent, 1),
          Ev("thought_start", "H1", "", "d1", Absent, 1)}

-----------------------------------------------------------------------------
(* Aggregator: the setTasks updater of processBatchedEvents *)

\* The terminal-action predicate of the completed check.
IsTerminal(e) ==
    /\ e.event_type = "action_result"
    /\ (OptIncludes(e.action_executed, <<"task_complete">>)
        \/ OptIncludes(e.action_executed, <<"task_reject">>))

\* (data.task_description as string) || ""
InitialDescription(e) ==
    IF e.task_description = Undefined THEN "" ELSE e.task_description

NewTask(e) ==
    [taskId |-> e.task_id, description |-> InitialDescription(e),
     completed |-> FALSE, firstTimestamp |-> e.timestamp, thoughts |-> <<>>]

NewThought(e) == [thoughtId |-> e.thought_id, stages |-> <<>>]

StageOf(e) ==
    [event_type |-> e.event_type, completed |-> TRUE,
     task_description |-> e.task_description,
     action_executed |-> e.action_executed, timestamp |-> e.timestamp]

\* Mutant: the lookup never finds the thought, so every event pushes a new one.
MutFindThoughtNever(thoughts, id) == 0

\* task.thoughts.find(t => t.thoughtId === thought_id): index, or 0.
FindThought(thoughts, id) ==
    IF \E i \in 1..Len(thoughts) : thoughts[i].thoughtId = id
    THEN CHOOSE i \in 1..Len(thoughts) :
            /\ thoughts[i].thoughtId = id
            /\ \A j \in 1..(i - 1) : thoughts[j].thoughtId # id
    ELSE 0

\* Mutant: the Map is replaced by one holding only the new entry.
MutMapSetReplace(m, k, v) == [x \in {k} |-> v]

\* thought.stages.set(name, stage): a Map held as a function on its keys.
MapSet(m, k, v) == [x \in (DOMAIN m) \cup {k} |-> IF x = k THEN v ELSE m[x]]

\* Mutant: the completed flag is recomputed from the current event alone.
MutUpdateTaskRecompute(task, e) ==
    LET found    == FindThought(task.thoughts, e.thought_id)
        thoughts == IF found = 0 THEN Append(task.thoughts, NewThought(e))
                    ELSE task.thoughts
        idx      == IF found = 0 THEN Len(thoughts) ELSE found
        staged   == IF e.event_type \in STAGE_NAMES
                    THEN [thoughts EXCEPT ![idx].stages =
                              MapSet(@, e.event_type, StageOf(e))]
                    ELSE thoughts
    IN [task EXCEPT !.thoughts = staged, !.completed = IsTerminal(e)]

\* Mutant: the event is stored under its event_type whatever that is.
MutUpdateTaskAnyStage(task, e) ==
    LET found    == FindThought(task.thoughts, e.thought_id)
        thoughts == IF found = 0 THEN Append(task.thoughts, NewThought(e))
                    ELSE task.thoughts
        idx      == IF found = 0 THEN Len(thoughts) ELSE found
    IN [task EXCEPT !.thoughts = [thoughts EXCEPT ![idx].stages =
                                     MapSet(@, e.event_type, StageOf(e))],
                    !.completed = IF IsTerminal(e) THEN TRUE ELSE @]

\* The effect of one event on the task object it addresses.
UpdateTask(task, e) ==
    LET found    == FindThought(task.thoughts, e.thought_id)
        thoughts == IF found = 0 THEN Append(task.thoughts, NewThought(e))
                    ELSE task.thoughts
        idx      == IF found = 0 THEN Len(thoughts) ELSE found
        staged   == IF e.event_type \in STAGE_NAMES
                    THEN [thoughts EXCEPT ![idx].stages =
                              MapSet(@, e.event_type, StageOf(e))]
                    ELSE thoughts
    IN [task EXCEPT !.thoughts = staged,
                    !.completed = IF IsTerminal(e) THEN TRUE ELSE @]

\* Mutant: the loop body runs for events without ids too.
MutApplyEventNoSkip(st, e) ==
    IF e.task_id \in DOMAIN st.map
    THEN [st EXCEPT !.heap[st.map[e.task_id]] = UpdateTask(@, e)]
    ELSE LET ref == Len(st.heap) + 1
         IN [map  |-> MapSet(st.map, e.task_id, ref),
             heap |-> Append(st.heap, UpdateTask(NewTask(e), e))]

\* One iteration of `for (const event of events)`. st.map is newTasks,
\* st.heap the task objects. An existing task object is updated in place:
\* newTasks.get(task_id) returns the object the previous Map also holds.
ApplyEvent(st, e) ==
    IF Falsy(e.thought_id) \/ Falsy(e.task_id) THEN st
    ELSE IF e.task_id \in DOMAIN st.map
         THEN [st EXCEPT !.heap[st.map[e.task_id]] = UpdateTask(@, e)]
         ELSE LET ref == Len(st.heap) + 1
              IN [map  |-> MapSet(st.map, e.task_id, ref),
                  heap |-> Append(st.heap, UpdateTask(NewTask(e), e))]

RECURSIVE ApplyAll(_, _)
ApplyAll(st, events) ==
    IF events = <<>> THEN st
    ELSE ApplyAll(ApplyEvent(st, Head(events)), Tail(events))

\* Mutant: the new Map starts empty instead of as a copy of prev.
MutApplyBatchFresh(prev, heap, events) ==
    ApplyAll([map |-> <<>>, heap |-> heap], events)

\* setTasks(prev => { const newTasks = new Map(prev); ...; return newTasks })
ApplyBatch(prev, heap, events) == ApplyAll([map |-> prev, heap |-> heap], events)

\* What a Map snapshot shows: every task object reachable from it.
Deep(map, heap) == [id \in DOMAIN map |-> heap[map[id]]]

View == Deep(tasks, taskObjs)

EventsOf(batch) == [i \in 1..Len(batch) |-> batch[i].ev]

-----------------------------------------------------------------------------
(* Batcher *)

\* queueEvent: push, clear the running timer, start a new 100 ms timer.
QueueEvent(e) ==
    /\ effectActive
    /\ nextSeq <= MaxEvents
    /\ pendingEvents' = Append(pendingEvents, [seq |-> nextSeq, ev |-> e])
    /\ batchTimeout' = "live"
    /\ nextSeq' = nextSeq + 1
    /\ UNCHANGED <<taskObjs, tasks, effectActive, delivered, prevTasks,
                   prevDeep, lastBatch>>
    /\ UNCHANGED <<rdVars, authVars, connVars, wizVars, proxyVars>>

\* Mutant: the queue is not reset after the batch was taken.
MutDrainQueueKeep(q) == q

\* The new value of pendingEventsRef.current after the batch was taken.
DrainQueue(q) == <<>>

\* processBatchedEvents, run when the timer fires.
ProcessBatchedEvents ==
    /\ batchTimeout = "live"
    /\ batchTimeout' = "dead"
    /\ IF Len(pendingEvents) = 0
       THEN UNCHANGED <<pendingEvents, taskObjs, tasks, delivered, prevTasks,
                        prevDeep, lastBatch>>
       ELSE LET st == ApplyBatch(tasks, taskObjs, EventsOf(pendingEvents))
            IN /\ pendingEvents' = DrainQueue(pendingEvents)
               /\ tasks' = st.map
               /\ taskObjs' = st.heap
               /\ delivered' = delivered \o pendingEvents
               /\ lastBatch' = pendingEvents
               /\ prevTasks' = tasks
               /\ prevDeep' = Deep(tasks, taskObjs)
    /\ UNCHANGED <<effectActive, nextSeq>>
    /\ UNCHANGED <<rdVars, authVars, connVars, wizVars, proxyVars>>

\* Cleanup of the SSE effect (currentAgent or queueEvent changed, or unmount):
\* abort the stream and clear the batch timer; the queue is left as it is.
EffectCleanup ==
    /\ effectActive
    /\ effectActive' = FALSE
    /\ batchTimeout' = IF batchTimeout = "null" THEN "null" ELSE "dead"
    /\ UNCHANGED <<pendingEvents, taskObjs, tasks, nextSeq, delivered,
                   prevTasks, prevDeep, lastBatch>>
    /\ UNCHANGED <<rdVars, authVars, connVars, wizVars, proxyVars>>

\* The effect runs again with a token and an agent: a new stream is opened.
EffectRun ==
    /\ ~effectActive
    /\ effectActive' = TRUE
    /\ UNCHANGED <<pendingEvents, batchTimeout, taskObjs, tasks, nextSeq,
                   delivered, prevTasks, prevDeep, lastBatch>>
    /\ UNCHANGED <<rdVars, authVars, connVars, wizVars, proxyVars>>

AggInit ==
    /\ pendingEvents = <<>>
    /\ batchTimeout = "null"
    /\ taskObjs = <<>>
    /\ tasks = <<>>
    /\ effectActive = TRUE
    /\ nextSeq = 1
    /\ delivered = <<>>
    /\ prevTasks = <<>>
    /\ prevDeep = <<>>
    /\ lastBatch = <<>>

AggNext ==
    \/ \E e \in Events : QueueEvent(e)
    \/ ProcessBatchedEvents
    \/ EffectCleanup
    \/ EffectRun

-----------------------------------------------------------------------------
(* Stream reader: the read loop of connectStream *)

NL == "\n"

\* Characters String.prototype.trim removes (a line holds no newline).
Whitespace == {" ", "\t", "\r"}

\* Text is a sequence of characters; the body is a sequence of bytes. An
\* ASCII character is one byte, written as the character; the two-byte
\* character e-acute is the bytes C3 A9.
EAcute == "e-acute"
LeadByte == "C3"
ContByte == "A9"

\* Both conversions work on halves of their input, cut between characters.
RECURSIVE Utf8Encode(_)
Utf8Encode(text) ==
    IF text = <<>> THEN <<>>
    ELSE IF Len(text) = 1
    THEN (IF text[1] = EAcute THEN <<LeadByte, ContByte>> ELSE text)
    ELSE LET h == Len(text) \div 2
         IN Utf8Encode(SubSeq(text, 1, h))
            \o Utf8Encode(SubSeq(text, h + 1, Len(text)))

\* The characters of a byte sequence that ends with a complete character.
RECURSIVE DecodeComplete(_)
DecodeComplete(bytes) ==
    IF Len(bytes) <= 1 THEN bytes
    ELSE IF Len(bytes) = 2 /\ bytes[1] = LeadByte THEN <<EAcute>>
    ELSE LET h == Len(bytes) \div 2
             m == IF bytes[h] = LeadByte THEN h + 1 ELSE h
         IN DecodeComplete(SubSeq(bytes, 1, m))
            \o DecodeComplete(SubSeq(bytes, m + 1, Len(bytes)))

EndsInsideCharacter(bytes) == bytes # <<>> /\ bytes[Len(bytes)] = LeadByte

\* decoder.decode(value, {stream: true}) on carry \o value: the text decoded
\* and the bytes of an incomplete trailing character, held for the next call.
DecodeStream(bytes) ==
    IF EndsInsideCharacter(bytes)
    THEN [text  |-> DecodeComplete(SubSeq(bytes, 1, Len(bytes) - 1)),
          carry |-> <<LeadByte>>]
    ELSE [text |-> DecodeComplete(bytes), carry |-> <<>>]


\* text.split("\n"): the pieces between newlines, at least one.
RECURSIVE SplitLines(_)
SplitLines(text) ==
    IF \A i \in 1..Len(text) : text[i] # NL THEN <<text>>
    ELSE LET k == CHOOSE i \in 1..Len(text) :
                     text[i] = NL /\ \A j \in 1..(i - 1) : text[j] # NL
         IN <<SubSeq(text, 1, k - 1)>> \o SplitLines(SubSeq(text, k + 1, Len(text)))

StartsWith(line, prefix) ==
    Len(line) >= Len(prefix) /\ SubSeq(line, 1, Len(prefix)) = prefix

\* line.slice(n)
Slice(line, n) == SubSeq(line, n + 1, Len(line))

RECURSIVE TrimStart(_)
TrimStart(t) ==
    IF t # <<>> /\ Head(t) \in Whitespace THEN TrimStart(Tail(t)) ELSE t

RECURSIVE TrimEnd(_)
TrimEnd(t) ==
    IF t # <<>> /\ t[Len(t)] \in Whitespace
    THEN TrimEnd(SubSeq(t, 1, Len(t) - 1)) ELSE t

Trim(t) == TrimEnd(TrimStart(t))

EventPrefix == <<"e", "v", "e", "n", "t", ":">>
DataPrefix == <<"d", "a", "t", "a", ":">>

\* Mutant: the text after the last newline is dropped instead of kept.
MutKeepNothing(lines) == <<>>

\* buffer = lines.pop() || ""
KeepLast(lines) == lines[Len(lines)]

\* The body of `for (const line of lines)` for one line; st holds eventType,
\* eventData and the processSSEEvent calls made.
ProcessLine(st, line) ==
    IF StartsWith(line, EventPrefix)
    THEN [type  |-> Trim(Slice(line, 6)),
          data  |-> <<>>,
          calls |-> IF st.type # <<>> /\ st.data # <<>>
                    THEN Append(st.calls, [type |-> st.type, data |-> st.data])
                    ELSE st.calls]
    ELSE IF StartsWith(line, DataPrefix)
    THEN LET newData == Trim(Slice(line, 5))
         IN [st EXCEPT !.data = IF st.data # <<>>
                                THEN st.data \o <<NL>> \o newData
                                ELSE newData]
    ELSE IF line = <<>>
    THEN IF st.type # <<>> /\ st.data # <<>>
         THEN [type  |-> <<>>, data |-> <<>>,
               calls |-> Append(st.calls, [type |-> st.type, data |-> st.data])]
         ELSE st
    ELSE st

RECURSIVE ProcessLines(_, _)
ProcessLines(st, lines) ==
    IF lines = <<>> THEN st
    ELSE ProcessLines(ProcessLine(st, Head(lines)), Tail(lines))

ProperPrefix(t, full) ==
    t # <<>> /\ Len(t) < Len(full) /\ SubSeq(full, 1, Len(t)) = t

\* Where a chunk of n bytes ends: inside a character, inside a field name,
\* between the two newlines that end a record.
CutKinds(n, carry, rest) ==
    (IF carry # <<>> THEN {"character"} ELSE {})
    \cup (IF ProperPrefix(rest, EventPrefix) \/ ProperPrefix(rest, DataPrefix)
          THEN {"token"} ELSE {})
    \cup (IF n < Len(rdInput) /\ rdInput[n] = NL /\ rdInput[n + 1] = NL
          THEN {"newlines"} ELSE {})

\* One iteration of the read loop: reader.read() yields the next n bytes.
ReadChunk(n) ==
    /\ rdState = "reading"
    /\ n \in 1..Len(rdInput)
    /\ LET dec   == DecodeStream(decoderCarry \o SubSeq(rdInput, 1, n))
           lines == SplitLines(buffer \o dec.text)
           st    == ProcessLines([type |-> eventType, data |-> eventData,
                                  calls |-> sseCalls],
                                 SubSeq(lines, 1, Len(lines) - 1))
       IN /\ decoderCarry' = dec.carry
          /\ buffer' = KeepLast(lines)
          /\ eventType' = st.type
          /\ eventData' = st.data
          /\ sseCalls' = st.calls
          /\ rdCuts' = rdCuts \cup CutKinds(n, dec.carry, KeepLast(lines))
    /\ rdInput' = SubSeq(rdInput, n + 1, Len(rdInput))
    /\ UNCHANGED <<rdState, rdRecords>>
    /\ UNCHANGED <<aggVars, authVars, connVars, wizVars, proxyVars>>

\* reader.read() reports done: the loop breaks.
ReadDone ==
    /\ rdState = "reading"
    /\ rdInput = <<>>
    /\ rdState' = "done"
    /\ UNCHANGED <<rdInput, decoderCarry, buffer, eventType, eventData,
                   sseCalls, rdRecords, rdCuts>>
    /\ UNCHANGED <<aggVars, authVars, connVars, wizVars, proxyVars>>

\* Well-formed records: a non-empty type and a one-line payload without
\* surrounding white space.
Rec(type, payload) == [type |-> type, data |-> payload]

Records ==
    {Rec(<<"s", "t", "e", "p", "_", "u", "p", "d", "a", "t", "e">>,
         <<"{", "\"", "a", "\"", ":", "1", "}">>),
     Rec(<<"x">>,
         <<"{", EAcute, " ", "d", "a", "t", "a", ":", EAcute, "}">>),
     Rec(<<"e", "v">>, <<"e", "v", "e", "n", "t", ":", " ", "y">>)}

\* The server's framing of a record, with or without the optional space.
Frame(r, sp) ==
    Utf8Encode(EventPrefix \o sp \o r.type \o <<NL>>
               \o DataPrefix \o sp \o r.data \o <<NL, NL>>)

RECURSIVE FrameAll(_, _)
FrameAll(recs, sp) ==
    IF recs = <<>> THEN <<>> ELSE Frame(Head(recs), sp) \o FrameAll(Tail(recs), sp)

\* The streams read: one record, or two records one after the other.
Streams ==
    {<<r>> : r \in Records}
    \cup {<<Rec(<<"x">>, <<"1">>), r>> : r \in Records}

RdInit ==
    /\ rdState = "reading"
    /\ rdRecords \in Streams
    /\ \E sp \in {<<>>, <<" ">>} : rdInput = FrameAll(rdRecords, sp)
    /\ decoderCarry = <<>>
    /\ buffer = <<>>
    /\ eventType = <<>>
    /\ eventData = <<>>
    /\ sseCalls = <<>>
    /\ rdCuts = {}

RdIdle ==
    /\ rdState = "idle"
    /\ rdRecords = <<>>
    /\ rdInput = <<>>
    /\ decoderCarry = <<>>
    /\ buffer = <<>>
    /\ eventType = <<>>
    /\ eventData = <<>>
    /\ sseCalls = <<>>
    /\ rdCuts = {}

RdNext ==
    \/ \E n \in 1..Len(rdInput) : ReadChunk(n)
    \/ ReadDone

-----------------------------------------------------------------------------
(* The SSE effect: connectStream's lifecycle and processSSEEvent *)

\* JSON text is a sequence of tokens: punctuation and keywords, or the text
\* of one event object.
NoObject == Ev(Undefined, Undefined, Undefined, Undefined, Absent, 0)
Tok(p) == [punct |-> p, obj |-> NoObject]
Obj(e) == [punct |-> "", obj |-> e]

EventsKey == Tok("\"events\"")

\* JSON.stringify({events: items}) as the server writes it.
Serialize(items) ==
    <<Tok("{"), EventsKey, Tok(":"), Tok("[")>>
    \o [i \in 1..(2 * Len(items) - 1) |->
           IF i % 2 = 1 THEN Obj(items[(i + 1) \div 2]) ELSE Tok(",")]
    \o <<Tok("]"), Tok("}")>>

\* The body of a JSON array: objects separated by commas.
IsElements(toks) ==
    /\ toks = <<>> \/ Len(toks) % 2 = 1
    /\ \A i \in 1..Len(toks) :
          IF i % 2 = 1 THEN toks[i].punct = "" ELSE toks[i] = Tok(",")

Elements(toks) == [i \in 1..((Len(toks) + 1) \div 2) |-> toks[2 * i - 1].obj]

\* Mutant: a parser that accepts any text and returns the objects it holds.
MutJsonParseLenient(toks) ==
    LET objs == SelectSeq(toks, LAMBDA t : t.punct = "")
    IN [ok |-> TRUE, isArray |-> TRUE,
        items |-> [i \in 1..Len(objs) |-> objs[i].obj]]

\* JSON.parse(data) followed by `update.events && Array.isArray(update.events)`:
\* ok is FALSE when JSON.parse throws; isArray says the parsed value has an
\* events array, whose elements are items.
JsonParse(toks) ==
    LET n    == Len(toks)
        fail == [ok |-> FALSE, isArray |-> FALSE, items |-> <<>>]
        none == [ok |-> TRUE, isArray |-> FALSE, items |-> <<>>]
    IN IF n < 2 \/ toks[1] # Tok("{") \/ toks[n] # Tok("}") THEN fail
       ELSE IF n = 2 THEN none
       ELSE IF n < 5 \/ toks[2] # EventsKey \/ toks[3] # Tok(":") THEN fail
       ELSE LET v == SubSeq(toks, 4, n - 1)
            IN IF v = <<Tok("null")>> THEN none
               ELSE IF /\ Len(v) >= 2
                       /\ v[1] = Tok("[")
                       /\ v[Len(v)] = Tok("]")
                       /\ IsElements(SubSeq(v, 2, Len(v) - 1))
               THEN [ok |-> TRUE, isArray |-> TRUE,
                     items |-> Elements(SubSeq(v, 2, Len(v) - 1))]
               ELSE fail

\* new Date().toISOString() at the time the record is processed.
IngestStamp == 9

\* The object processSSEEvent hands to queueEvent; a missing timestamp (0)
\* is replaced by the current time.
ToQueued(event) ==
    [event EXCEPT !.timestamp = IF @ = 0 THEN IngestStamp ELSE @]

\* Mutant: the new event is put at the head of the queue.
MutPushFront(st, e, from) ==
    [st EXCEPT !.queue = <<[seq |-> st.seq, ev |-> e]>> \o @,
               !.timer = "live",
               !.seq = @ + 1,
               !.origin = Append(@, from)]

\* queueEvent on the refs st: push, restart the timer. `from` is recorded in
\* the history only.
Push(st, e, from) ==
    [st EXCEPT !.queue = Append(@, [seq |-> st.seq, ev |-> e]),
               !.timer = "live",
               !.seq = @ + 1,
               !.origin = Append(@, from)]

RECURSIVE PushAll(_, _, _, _)
PushAll(st, items, from, i) ==
    IF i > Len(items) THEN st
    ELSE PushAll(Push(st, ToQueued(items[i]), [from EXCEPT !.idx = i]),
                 items, from, i + 1)

\* processSSEEvent(type, data): only step_update records are parsed; a
\* parse error is caught and logged.
ProcessSSEEvent(st, rec, from) ==
    IF rec.type # "step_update" THEN st
    ELSE LET update == JsonParse(rec.data)
         IN IF ~update.ok THEN [st EXCEPT !.parseErrors = @ + 1]
            ELSE IF update.isArray THEN PushAll(st, update.items, from, 1)
            ELSE st

\* The processSSEEvent calls of one chunk, in the order of its records; c is
\* the connection and n the number of records it has read before.
RECURSIVE ProcessRecords(_, _, _, _)
ProcessRecords(st, recs, c, n) ==
    IF recs = <<>> THEN st
    ELSE ProcessRecords(
             ProcessSSEEvent(st, Head(recs), [conn |-> c, rec |-> n + 1, idx |-> 0]),
             Tail(recs), c, n + 1)

EvA == Ev("thought_start", "H1", "T1", "d1", Absent, 1)
EvB == Ev("dma_results", "H1", "T1", Undefined, Absent, 0)
EvC == Ev("action_result", "H1", "T1", Undefined, Str(<<"task_complete">>), 2)

\* The records a stream may carry: one event, two events, a payload cut
\* short, a record of another type, and an object whose events field is
\* null.
SseRecords ==
    {Rec("step_update", Serialize(<<EvA>>)),
     Rec("step_update", Serialize(<<EvB, EvC>>)),
     Rec("step_update", SubSeq(Serialize(<<EvA>>), 1, 5)),
     Rec("keepalive", Serialize(<<EvA>>)),
     Rec("step_update", <<Tok("{"), EventsKey, Tok(":"), Tok("null"), Tok("}")>>)}

\* What one reader.read() may deliver: one record or two.
Chunks == {<<r>> : r \in SseRecords} \cup {<<r, q>> : r, q \in SseRecords}

ConnIds == 1..MaxConns

NoConn ==
    [pc |-> "none", aborted |-> FALSE, response |-> "none", records |-> <<>>,
     httpErrors |-> 0, parseErrors |-> 0, sseErrors |-> 0, outcome |-> "pending"]

\* connectStream() was called: it awaits fetch.
NewConn == [NoConn EXCEPT !.pc = "fetch"]

\* connectStream returns; nothing in it throws past its try/catch, so the
\* promise it returned is fulfilled.
ConnReturn(conn) == [conn EXCEPT !.pc = "returned", !.outcome = "fulfilled"]

\* The SSE effect runs with a token and an agent: it calls connectStream.
ConnEffectRun ==
    /\ ~effectActive
    /\ connCount < MaxConns
    /\ effectActive' = TRUE
    /\ connCount' = connCount + 1
    /\ conns' = [conns EXCEPT ![connCount + 1] = NewConn]
    /\ UNCHANGED <<sseConnected, origin>>
    /\ UNCHANGED <<pendingEvents, batchTimeout, taskObjs, tasks, nextSeq,
                   delivered, prevTasks, prevDeep, lastBatch>>
    /\ UNCHANGED <<rdVars, authVars, wizVars, proxyVars>>

\* The effect's cleanup: abort, setSseConnected(false), clear the timer.
ConnEffectCleanup ==
    /\ effectActive
    /\ effectActive' = FALSE
    /\ conns' = [conns EXCEPT ![connCount].aborted = TRUE]
    /\ sseConnected' = FALSE
    /\ batchTimeout' = IF batchTimeout = "null" THEN "null" ELSE "dead"
    /\ UNCHANGED <<connCount, origin>>
    /\ UNCHANGED <<pendingEvents, taskObjs, tasks, nextSeq, delivered,
                   prevTasks, prevDeep, lastBatch>>
    /\ UNCHANGED <<rdVars, authVars, wizVars, proxyVars>>

FetchOutcomes == {"ok", "not_ok", "no_body", "network_error"}

\* `await fetch(...)` settles on a connection that was not aborted.
FetchSettles(c, resp) ==
    /\ conns[c].pc = "fetch"
    /\ ~conns[c].aborted
    /\ LET conn == [conns[c] EXCEPT !.response = resp]
       IN CASE resp = "not_ok" ->
                 /\ conns' = [conns EXCEPT
                                 ![c] = ConnReturn([conn EXCEPT !.httpErrors = @ + 1])]
                 /\ UNCHANGED sseConnected
            [] resp = "ok" ->
                 /\ conns' = [conns EXCEPT ![c] = [conn EXCEPT !.pc = "read"]]
                 /\ sseConnected' = TRUE
            [] resp = "no_body" ->
                 /\ conns' = [conns EXCEPT ![c] = ConnReturn(conn)]
                 /\ sseConnected' = TRUE
            [] resp = "network_error" ->
                 /\ conns' = [conns EXCEPT
                                 ![c] = ConnReturn([conn EXCEPT !.sseErrors = @ + 1])]
                 /\ sseConnected' = FALSE
    /\ UNCHANGED <<connCount, origin>>
    /\ UNCHANGED aggVars
    /\ UNCHANGED <<rdVars, authVars, wizVars, proxyVars>>

\* The number of events the records of a chunk will queue.
RECURSIVE QueuedBy(_)
QueuedBy(recs) ==
    IF recs = <<>> THEN 0
    ELSE (IF Head(recs).type = "step_update"
          THEN Len(JsonParse(Head(recs).data).items) ELSE 0)
         + QueuedBy(Tail(recs))

RECURSIVE RecordsUpTo(_)
RecordsUpTo(c) == IF c = 0 THEN 0 ELSE Len(conns[c].records) + RecordsUpTo(c - 1)

\* The records read so far, over all connections.
RecordsRead == RecordsUpTo(MaxConns)

\* `await reader.read()` yields a chunk holding the records recs: one
\* iteration of the read loop.
ReadSettles(c, recs) ==
    /\ conns[c].pc = "read"
    /\ ~conns[c].aborted
    /\ RecordsRead + Len(recs) <= MaxRecords
    /\ nextSeq + QueuedBy(recs) - 1 <= MaxEvents
    /\ LET st == ProcessRecords([queue |-> pendingEvents, timer |-> batchTimeout,
                                 seq |-> nextSeq, origin |-> origin,
                                 parseErrors |-> conns[c].parseErrors],
                                recs, c, Len(conns[c].records))
       IN /\ pendingEvents' = st.queue
          /\ batchTimeout' = st.timer
          /\ nextSeq' = st.seq
          /\ origin' = st.origin
          /\ conns' = [conns EXCEPT ![c].records = @ \o recs,
                                    ![c].parseErrors = st.parseErrors]
    /\ UNCHANGED <<connCount, sseConnected>>
    /\ UNCHANGED <<taskObjs, tasks, effectActive, delivered, prevTasks,
                   prevDeep, lastBatch>>
    /\ UNCHANGED <<rdVars, authVars, wizVars, proxyVars>>

\* Mutant: when the stream ends, connectStream is called again.
MutReadEndsReconnect(c, how) ==
    /\ conns[c].pc = "read"
    /\ ~conns[c].aborted
    /\ connCount < MaxConns
    /\ conns' = [conns EXCEPT ![c] = ConnReturn(@), ![connCount + 1] = NewConn]
    /\ connCount' = connCount + 1
    /\ UNCHANGED <<sseConnected, origin>>
    /\ UNCHANGED aggVars
    /\ UNCHANGED <<rdVars, authVars, wizVars, proxyVars>>

\* `await reader.read()` reports done (the loop breaks), or rejects with a
\* network error (the catch logs it and clears the connected flag).
ReadEnds(c, how) ==
    /\ conns[c].pc = "read"
    /\ ~conns[c].aborted
    /\ CASE how = "done" ->
              /\ conns' = [conns EXCEPT ![c] = ConnReturn(@)]
              /\ UNCHANGED sseConnected
         [] how = "error" ->
              /\ conns' = [conns EXCEPT
                              ![c] = ConnReturn([@ EXCEPT !.sseErrors = @ + 1])]
              /\ sseConnected' = FALSE
    /\ UNCHANGED <<connCount, origin>>
    /\ UNCHANGED aggVars
    /\ UNCHANGED <<rdVars, authVars, wizVars, proxyVars>>

\* Mutant: the catch treats the AbortError like any other error.
MutAbortAsError(c) ==
    /\ conns[c].pc \in {"fetch", "read"}
    /\ conns[c].aborted
    /\ conns' = [conns EXCEPT ![c] = ConnReturn([@ EXCEPT !.sseErrors = @ + 1])]
    /\ sseConnected' = FALSE
    /\ UNCHANGED <<connCount, origin>>
    /\ UNCHANGED aggVars
    /\ UNCHANGED <<rdVars, authVars, wizVars, proxyVars>>

\* The pending fetch or read of an aborted connection rejects with an
\* AbortError, which the catch passes over.
AbortSettles(c) ==
    /\ conns[c].pc \in {"fetch", "read"}
    /\ conns[c].aborted
    /\ conns' = [conns EXCEPT ![c] = ConnReturn(@)]
    /\ UNCHANGED <<connCount, sseConnected, origin>>
    /\ UNCHANGED aggVars
    /\ UNCHANGED <<rdVars, authVars, wizVars, proxyVars>>

\* The effect has run once: the first connectStream awaits its fetch.
ConnInit ==
    /\ connCount = 1
    /\ conns = [c \in ConnIds |-> IF c = 1 THEN NewConn ELSE NoConn]
    /\ sseConnected = FALSE
    /\ origin = <<>>

ConnIdle ==
    /\ connCount = 0
    /\ conns = [c \in ConnIds |-> NoConn]
    /\ sseConnected = FALSE
    /\ origin = <<>>

ConnNext ==
    \/ ConnEffectRun
    \/ ConnEffectCleanup
    \/ \E c \in ConnIds, resp \in FetchOutcomes : FetchSettles(c, resp)
    \/ \E c \in ConnIds, recs \in Chunks : ReadSettles(c, recs)
    \/ \E c \in ConnIds, how \in {"done", "error"} : ReadEnds(c, how)
    \/ \E c \in ConnIds : AbortSettles(c)
    \/ ProcessBatchedEvents

-----------------------------------------------------------------------------
(* AuthProvider: mount effect, checkNativeAuth, checkAuth *)

\* The loop guard's window: now - lastRedirectTime < 5000.
RedirectWindowMs == 5000

\* The clock advances in steps of half the window.
TickMs == RedirectWindowMs \div 2

\* Date.now() is far above the window, so an absent ciris_last_redirect_time
\* (read as 0) is never recent.
StartTime == 2 * RedirectWindowMs

Paths == {"/login", "/manager/agents", "/", "/setup"}

OnSetupPath(p) == p = "/setup"

\* Mutant: no route skips the auth check.
MutSkipsNothing(p) == FALSE

\* pathname === "/login" || pathname.startsWith("/manager")
SkipsAuthCheck(p) == p \in {"/login", "/manager/agents"}

\* checkNativeAuth invocations of a page: 0 is the mount effect's, k > 0 the
\* one started by the k-th ciris_native_auth_ready event.
CallIds == 0..MaxNativeEvents

\* branch names the place where the call set the user ("none": it did not),
\* resp the answer its setup-status request got, login the outcome of its
\* login request.
IdleCall ==
    [pc |-> "idle", showSetupFlag |-> FALSE, localFlag |-> "null",
     branch |-> "none", viaGuard |-> FALSE, resp |-> "none", login |-> "none"]

Returned(c, value) == [c EXCEPT !.pc = IF value THEN "returned_true" ELSE "returned_false"]

\* redirectInProgress || now - lastRedirectTime < 5000
LoopGuardActive(store, t) ==
    store.redirectInProgress \/ t - store.lastRedirectTime < RedirectWindowMs

\* The start of checkSetupStatusFromAPI: the local flag is read and the
\* request to /v1/setup/status is sent.
AwaitSetupStatus(st, branch) ==
    [st EXCEPT !.call.pc = "await_setup",
               !.call.branch = branch,
               !.call.localFlag = st.ls.showSetup,
               !.remote = @ \cup {"setup_status"}]

\* `if (showSetupFlag && !currentPath.startsWith("/setup"))` after the user
\* was set: ask the API, or return true.
SetupCheckOrReturn(st, branch) ==
    IF st.call.showSetupFlag /\ ~OnSetupPath(pathname)
    THEN AwaitSetupStatus(st, branch)
    ELSE [st EXCEPT !.call = Returned([@ EXCEPT !.branch = branch], TRUE)]

\* checkNativeAuth from its first line to its first await or its return.
\* st holds localStorage, the React state, the requests sent and the call.
NativeAuthStart(st) ==
    LET flagged == [st EXCEPT !.call.showSetupFlag = (st.ls.showSetup = "true")]
        hasInjected == st.ls.injectedToken
        hasToken == st.ls.injectedToken \/ st.ls.nativeAuthToken
        \* the token is restored; an injected token is saved
        saved == IF hasInjected
                 THEN [flagged EXCEPT !.ls.nativeAuthToken = TRUE,
                                      !.ls.nativeAuthComplete = TRUE]
                 ELSE flagged
        \* JSON.parse threw in the restore branch: the flags are removed
        cleared == [saved EXCEPT !.ls.nativeAuthToken = FALSE,
                                 !.ls.nativeAuthComplete = FALSE]
        restore == (st.ls.nativeAuthComplete \/ hasInjected) /\ hasToken
        \* from `if (cirisClient.isAuthenticated())` on
        Login(s) ==
            IF sdkAuth THEN [s EXCEPT !.call = Returned(@, TRUE)]
            ELSE IF s.ls.nativeAuth = "garbage"
                 THEN [s EXCEPT !.call = Returned(@, FALSE)]
                 ELSE [s EXCEPT !.call.pc = "await_login",
                                !.remote = @ \cup {"login"}]
    IN IF LoopGuardActive(ss, now)
       THEN [flagged EXCEPT !.call = Returned([@ EXCEPT !.viaGuard = TRUE], TRUE)]
       ELSE IF ~st.ls.isNativeApp \/ st.ls.nativeAuth = "null"
       THEN [flagged EXCEPT !.call = Returned(@, FALSE)]
       ELSE IF restore
       THEN IF st.ls.nativeAuth = "json"
            THEN SetupCheckOrReturn(
                     [saved EXCEPT !.user = "restored", !.loading = FALSE],
                     "restored")
            ELSE Login(cleared)
       ELSE Login(flagged)

\* The state record checkNativeAuth works on, for call c.
CallState(c) ==
    [ls |-> ls, user |-> user, loading |-> loading, remote |-> remoteCalls,
     call |-> calls[c]]

\* checkAuth from its first line to its await or its end.
CheckAuthStart == IF sdkAuth THEN "await_getMe" ELSE "done"

\* AuthProvider's mount effect.
MountEffect ==
    /\ page = "loaded"
    /\ page' = "mounted"
    /\ IF SkipsAuthCheck(pathname)
       THEN /\ loading' = FALSE
            /\ UNCHANGED <<ls, user, calls, checkAuthPc, remoteCalls>>
       ELSE LET st == NativeAuthStart(CallState(0))
                runsCheckAuth == st.call.pc = "returned_false"
            IN /\ ls' = st.ls
               /\ user' = st.user
               /\ calls' = [calls EXCEPT ![0] = st.call]
               /\ checkAuthPc' = IF runsCheckAuth THEN CheckAuthStart ELSE "idle"
               /\ loading' = IF runsCheckAuth /\ CheckAuthStart = "done"
                             THEN FALSE ELSE st.loading
               /\ remoteCalls' = IF runsCheckAuth /\ CheckAuthStart = "await_getMe"
                                 THEN st.remote \cup {"getMe"} ELSE st.remote
    /\ UNCHANGED <<getMeResult, logoutPc, serverSetup>>
    /\ UNCHANGED <<pathname, setupMounted, ss, now, sdkAuth, nativeEvents,
                   navPending, pageLoads, navs>>
    /\ UNCHANGED <<aggVars, rdVars, connVars, wizVars, proxyVars>>

\* Mutant: the listener does not consult the session flag.
MutHandleEveryEvent ==
    /\ page = "mounted"
    /\ nativeEvents < MaxNativeEvents
    /\ nativeEvents' = nativeEvents + 1
    /\ LET st == NativeAuthStart(CallState(nativeEvents + 1))
       IN /\ ss' = [ss EXCEPT !.eventHandled = TRUE]
          /\ ls' = st.ls
          /\ user' = st.user
          /\ loading' = st.loading
          /\ calls' = [calls EXCEPT ![nativeEvents + 1] = st.call]
          /\ remoteCalls' = st.remote
    /\ UNCHANGED <<getMeResult, logoutPc, serverSetup>>
    /\ UNCHANGED <<pathname, page, setupMounted, now, sdkAuth, checkAuthPc,
                   navPending, pageLoads, navs>>
    /\ UNCHANGED <<aggVars, rdVars, connVars, wizVars, proxyVars>>

\* handleNativeAuthReady: the listener the mount effect registered.
HandleNativeAuthReady ==
    /\ page = "mounted"
    /\ nativeEvents < MaxNativeEvents
    /\ nativeEvents' = nativeEvents + 1
    /\ IF ss.eventHandled
       THEN UNCHANGED <<ls, ss, user, loading, calls, remoteCalls>>
       ELSE LET st == NativeAuthStart(CallState(nativeEvents + 1))
            IN /\ ss' = [ss EXCEPT !.eventHandled = TRUE]
               /\ ls' = st.ls
               /\ user' = st.user
               /\ loading' = st.loading
               /\ calls' = [calls EXCEPT ![nativeEvents + 1] = st.call]
               /\ remoteCalls' = st.remote
    /\ UNCHANGED <<getMeResult, logoutPc, serverSetup>>
    /\ UNCHANGED <<pathname, page, setupMounted, now, sdkAuth, checkAuthPc,
                   navPending, pageLoads, navs>>
    /\ UNCHANGED <<aggVars, rdVars, connVars, wizVars, proxyVars>>

\* cirisClient.login("admin", ...) settles; checkNativeAuth runs on to its
\* next await or its return. Every rejection takes the same catch block.
\* The SDK client is outside these sources: a successful login is taken to
\* leave it authenticated, and sdkConfigManager.configure to leave
\* isAuthenticated() as it was.
LoginSettles(c, outcome) ==
    /\ calls[c].pc = "await_login"
    /\ LET st == CallState(c)
           next ==
             IF outcome = "ok"
             THEN SetupCheckOrReturn(
                      [st EXCEPT !.call.login = outcome,
                                 !.ls.nativeAuthToken = TRUE,
                                 !.ls.nativeAuthComplete = TRUE,
                                 !.user = "login", !.loading = FALSE],
                      "login")
             ELSE SetupCheckOrReturn(
                      [st EXCEPT !.call.login = outcome,
                                 !.ls.nativeAuthComplete = TRUE,
                                 !.user = "mock", !.loading = FALSE],
                      "mock")
       IN /\ ls' = next.ls
          /\ user' = next.user
          /\ loading' = next.loading
          /\ calls' = [calls EXCEPT ![c] = next.call]
          /\ remoteCalls' = next.remote
    /\ sdkAuth' = IF outcome = "ok" THEN TRUE ELSE sdkAuth
    /\ UNCHANGED <<getMeResult, logoutPc, serverSetup>>
    /\ UNCHANGED <<pathname, page, setupMounted, ss, now, checkAuthPc,
                   nativeEvents, navPending, pageLoads, navs>>
    /\ UNCHANGED <<aggVars, rdVars, connVars, wizVars, proxyVars>>

LoginOutcomes == {"ok", "unauthorized", "network_error"}

\* Mutant: the answer of the API is taken to say that setup is needed.
MutSetupNeededAlways(resp, localFlag) == TRUE

\* Mutant: the answer of the API is taken to say that setup is complete.
MutSetupNeededNever(resp, localFlag) == FALSE

\* What checkSetupStatusFromAPI returns for a response, given the local flag
\* it read before the request.
SetupNeeded(resp, localFlag) ==
    CASE resp = "complete" -> FALSE
      [] resp \in {"required", "unclear"} -> TRUE
      [] OTHER -> localFlag = "true"

SetupResponses == {"complete", "required", "unclear", "not_ok", "network_error"}

\* The sessionStorage writes of doSetupRedirect.
RedirectLock(store, t) ==
    [store EXCEPT !.redirectInProgress = TRUE, !.lastRedirectTime = t]

\* The request to /v1/setup/status settles: checkSetupStatusFromAPI returns
\* and checkNativeAuth redirects to /setup or returns.
SetupStatusSettles(c, resp) ==
    /\ calls[c].pc = "await_setup"
    /\ resp = "required" => serverSetup = "required"
    /\ resp = "complete" => serverSetup = "complete"
    /\ LET needed == SetupNeeded(resp, calls[c].localFlag)
           apiSaysComplete == resp = "complete"
           clearsFlag == apiSaysComplete \/ (~needed /\ calls[c].branch = "restored")
       IN /\ ls' = IF clearsFlag THEN [ls EXCEPT !.showSetup = "false"] ELSE ls
          /\ IF needed
             THEN /\ ss' = RedirectLock(ss, now)
                  /\ navs' = Append(navs, [t |-> now, call |-> c, page |-> pageLoads,
                                            from |-> pathname])
                  /\ navPending' = TRUE
             ELSE UNCHANGED <<ss, navs, navPending>>
    /\ calls' = [calls EXCEPT ![c] = Returned([@ EXCEPT !.resp = resp], TRUE)]
    /\ UNCHANGED <<getMeResult, logoutPc, serverSetup>>
    /\ UNCHANGED <<pathname, page, setupMounted, now, sdkAuth, user, loading,
                   checkAuthPc, nativeEvents, pageLoads, remoteCalls>>
    /\ UNCHANGED <<aggVars, rdVars, connVars, wizVars, proxyVars>>

\* cirisClient.auth.getMe() settles in checkAuth.
GetMeSettles(outcome) ==
    /\ checkAuthPc = "await_getMe"
    /\ checkAuthPc' = "done"
    /\ getMeResult' = outcome
    /\ user' = IF outcome = "ok" THEN "me" ELSE user
    /\ loading' = FALSE
    /\ UNCHANGED <<logoutPc, serverSetup>>
    /\ UNCHANGED <<pathname, page, setupMounted, ls, ss, now, sdkAuth, calls,
                   nativeEvents, navPending, pageLoads, navs, remoteCalls>>
    /\ UNCHANGED <<aggVars, rdVars, connVars, wizVars, proxyVars>>

\* SetupWizard's mount effect: the redirect lock and the event flag are
\* removed; the redirect timestamp is left.
SetupPageMount ==
    /\ page # "none"
    /\ OnSetupPath(pathname)
    /\ ~setupMounted
    /\ setupMounted' = TRUE
    /\ ss' = [ss EXCEPT !.redirectInProgress = FALSE, !.eventHandled = FALSE]
    /\ UNCHANGED <<getMeResult, logoutPc, serverSetup>>
    /\ UNCHANGED <<pathname, page, ls, now, sdkAuth, user, loading, calls,
                   checkAuthPc, nativeEvents, navPending, pageLoads, navs,
                   remoteCalls>>
    /\ UNCHANGED <<aggVars, rdVars, connVars, wizVars, proxyVars>>

Tick ==
    /\ page # "none"
    /\ now < StartTime + MaxTicks * TickMs
    /\ now' = now + TickMs
    /\ UNCHANGED <<getMeResult, logoutPc, serverSetup>>
    /\ UNCHANGED <<pathname, page, setupMounted, ls, ss, sdkAuth, user, loading,
                   calls, checkAuthPc, nativeEvents, navPending, pageLoads,
                   navs, remoteCalls>>
    /\ UNCHANGED <<aggVars, rdVars, connVars, wizVars, proxyVars>>

\* The navigation started by doSetupRedirect completes: the page unloads with
\* whatever was in flight, and /setup loads with fresh React state. Both
\* storages persist; the in-memory client is new.
PageLoad(auth) ==
    /\ navPending
    /\ pageLoads < MaxPageLoads
    /\ pageLoads' = pageLoads + 1
    /\ pathname' = "/setup"
    /\ page' = "loaded"
    /\ setupMounted' = FALSE
    /\ user' = "null"
    /\ loading' = TRUE
    /\ calls' = [c \in CallIds |-> IdleCall]
    /\ checkAuthPc' = "idle"
    /\ nativeEvents' = 0
    /\ navPending' = FALSE
    /\ sdkAuth' = auth
    /\ remoteCalls' = {}
    /\ getMeResult' = "none"
    /\ logoutPc' = "idle"
    /\ UNCHANGED <<serverSetup, ls, ss, now, navs>>
    /\ UNCHANGED <<aggVars, rdVars, connVars, wizVars, proxyVars>>

\* logout() up to its await: the request to the agent is sent.
LogoutStart ==
    /\ page = "mounted"
    /\ ~navPending
    /\ logoutPc = "idle"
    /\ logoutPc' = "await_logout"
    /\ UNCHANGED <<getMeResult, serverSetup>>
    /\ UNCHANGED <<pathname, page, setupMounted, ls, ss, now, sdkAuth, user,
                   loading, calls, checkAuthPc, nativeEvents, navPending,
                   pageLoads, navs, remoteCalls>>
    /\ UNCHANGED <<aggVars, rdVars, connVars, wizVars, proxyVars>>

\* cirisClient.logout() settles and logout() returns. When it resolves the
\* user is cleared and the router pushes /login (a client-side route change:
\* the provider stays mounted); when it rejects the catch reports the failure
\* and nothing else is touched.
LogoutSettles(outcome) ==
    /\ logoutPc = "await_logout"
    /\ logoutPc' = "done"
    /\ user' = IF outcome = "ok" THEN "null" ELSE user
    /\ pathname' = IF outcome = "ok" THEN "/login" ELSE pathname
    /\ sdkAuth' = IF outcome = "ok" THEN FALSE ELSE sdkAuth
    /\ UNCHANGED <<getMeResult, serverSetup>>
    /\ UNCHANGED <<page, setupMounted, ls, ss, now, loading, calls,
                   checkAuthPc, nativeEvents, navPending, pageLoads, navs,
                   remoteCalls>>
    /\ UNCHANGED <<aggVars, rdVars, connVars, wizVars, proxyVars>>

LocalStorages ==
    [isNativeApp : BOOLEAN, nativeAuth : {"null", "json", "garbage"},
     showSetup : {"null", "true", "false"}, injectedToken : BOOLEAN,
     nativeAuthComplete : BOOLEAN, nativeAuthToken : BOOLEAN]

\* A page loaded in a new browser session: sessionStorage is empty.
AuthInit ==
    /\ pathname \in Paths
    /\ serverSetup \in {"required", "complete"}
    /\ page = "loaded"
    /\ setupMounted = FALSE
    /\ ls \in LocalStorages
    /\ ss = [redirectInProgress |-> FALSE, lastRedirectTime |-> 0,
             eventHandled |-> FALSE]
    /\ now = StartTime
    /\ sdkAuth \in BOOLEAN
    /\ user = "null"
    /\ loading = TRUE
    /\ calls = [c \in CallIds |-> IdleCall]
    /\ checkAuthPc = "idle"
    /\ nativeEvents = 0
    /\ navPending = FALSE
    /\ pageLoads = 1
    /\ navs = <<>>
    /\ remoteCalls = {}
    /\ getMeResult = "none"
    /\ logoutPc = "idle"

AuthIdle ==
    /\ pathname = "/"
    /\ serverSetup = "complete"
    /\ page = "none"
    /\ setupMounted = FALSE
    /\ ls = [isNativeApp |-> FALSE, nativeAuth |-> "null", showSetup |-> "null",
             injectedToken |-> FALSE, nativeAuthComplete |-> FALSE,
             nativeAuthToken |-> FALSE]
    /\ ss = [redirectInProgress |-> FALSE, lastRedirectTime |-> 0,
             eventHandled |-> FALSE]
    /\ now = StartTime
    /\ sdkAuth = FALSE
    /\ user = "null"
    /\ loading = TRUE
    /\ calls = [c \in CallIds |-> IdleCall]
    /\ checkAuthPc = "idle"
    /\ nativeEvents = 0
    /\ navPending = FALSE
    /\ pageLoads = 0
    /\ navs = <<>>
    /\ remoteCalls = {}
    /\ getMeResult = "none"
    /\ logoutPc = "idle"

AuthNext ==
    \/ MountEffect
    \/ HandleNativeAuthReady
    \/ \E c \in CallIds, o \in LoginOutcomes : LoginSettles(c, o)
    \/ \E c \in CallIds, r \in SetupResponses : SetupStatusSettles(c, r)
    \/ \E o \in {"ok", "unauthorized", "network_error"} : GetMeSettles(o)
    \/ SetupPageMount
    \/ Tick
    \/ \E auth \in BOOLEAN : PageLoad(auth)

-----------------------------------------------------------------------------
(* SetupWizard: the steps of the wizard and completeSetup *)

Usernames == {"", "operator"}

Passwords == {"", "short", "long-enough"}

UserForms ==
    [username : Usernames, password : Passwords, passwordConfirm : Passwords]

\* showLocalUserFields and useCirisProxy, derived on every render.
ShowLocalUserFields(w) == ~w.isGoogleAuth

UseCirisProxy(w) == w.llmChoice = "ciris_key"

\* The disabled attribute of the Complete Setup button.
CompleteDisabled(w) ==
    \/ w.loading
    \/ /\ ShowLocalUserFields(w)
       /\ \/ w.form.username = ""
          \/ w.form.password = ""
          \/ w.form.passwordConfirm = ""
          \/ Len(w.form.password) < 8
          \/ w.form.password # w.form.passwordConfirm

\* readNativeAppState: the auth method and the saved LLM choice are read
\* from localStorage.
ReadNativeAppState(w, store) ==
    LET a == IF store.authMethod = "google"
             THEN [w EXCEPT !.isGoogleAuth = TRUE]
             ELSE IF store.authMethod # "null"
                  THEN [w EXCEPT !.isGoogleAuth = FALSE, !.llmChoice = "byok"]
                  ELSE w
    IN  IF store.llmChoice # "null"
        THEN [a EXCEPT !.llmChoice = store.llmChoice]
        ELSE a

\* The wizard's mount effect up to the first await of
\* loadProvidersAndTemplates.
WizMount ==
    /\ ~wiz.mounted
    /\ wiz' = [ReadNativeAppState(wiz, wizLs) EXCEPT
                  !.mounted = TRUE, !.loadingProviders = TRUE]
    /\ UNCHANGED <<wizLs, wizLog>>
    /\ UNCHANGED <<aggVars, rdVars, authVars, connVars, proxyVars>>

\* getProviders and getTemplates settle: the first provider is selected when
\* the agent returned any; a failure is reported and changes nothing.
LoadProvidersSettles(hasProviders) ==
    /\ wiz.loadingProviders
    /\ wiz' = [wiz EXCEPT !.loadingProviders = FALSE,
                          !.selectedProvider = IF hasProviders THEN TRUE ELSE @]
    /\ UNCHANGED <<wizLs, wizLog>>
    /\ UNCHANGED <<aggVars, rdVars, authVars, connVars, proxyVars>>

\* The wizard's ciris_native_auth_ready listener.
WizNativeAuthReady ==
    /\ wiz.mounted
    /\ wiz' = ReadNativeAppState(wiz, wizLs)
    /\ UNCHANGED <<wizLs, wizLog>>
    /\ UNCHANGED <<aggVars, rdVars, authVars, connVars, proxyVars>>

\* The Continue button of the welcome step and the Back buttons.
WizGoTo(step) ==
    /\ wiz.mounted
    /\ \/ wiz.currentStep = "welcome" /\ step = "llm"
       \/ wiz.currentStep = "llm" /\ step = "welcome"
       \/ wiz.currentStep = "users" /\ step = "llm"
    /\ wiz' = [wiz EXCEPT !.currentStep = step]
    /\ UNCHANGED <<wizLs, wizLog>>
    /\ UNCHANGED <<aggVars, rdVars, authVars, connVars, proxyVars>>

\* Continue in the free-AI panel shown to Google users.
WizGoogleContinue ==
    /\ wiz.mounted
    /\ wiz.currentStep = "llm"
    /\ wiz.isGoogleAuth /\ ~wiz.showAdvanced
    /\ wiz' = [wiz EXCEPT !.llmChoice = "ciris_key", !.selectedProvider = TRUE,
                          !.llmValid = TRUE, !.currentStep = "users"]
    /\ wizLs' = [wizLs EXCEPT !.llmChoice = "ciris_key"]
    /\ UNCHANGED wizLog
    /\ UNCHANGED <<aggVars, rdVars, authVars, connVars, proxyVars>>

\* "I have my own AI provider (Advanced)" and "Use free AI instead".
WizShowAdvanced(on) ==
    /\ wiz.mounted
    /\ wiz.currentStep = "llm"
    /\ wiz.isGoogleAuth
    /\ wiz.showAdvanced # on
    /\ wiz' = IF on
              THEN [wiz EXCEPT !.showAdvanced = TRUE]
              ELSE [wiz EXCEPT !.showAdvanced = FALSE, !.llmChoice = "null",
                               !.selectedProvider = FALSE]
    /\ UNCHANGED <<wizLs, wizLog>>
    /\ UNCHANGED <<aggVars, rdVars, authVars, connVars, proxyVars>>

\* A provider card is clicked.
WizSelectProvider ==
    /\ wiz.mounted
    /\ wiz.currentStep = "llm"
    /\ ~wiz.isGoogleAuth \/ wiz.showAdvanced
    /\ wiz' = [wiz EXCEPT !.llmChoice = "byok", !.selectedProvider = TRUE,
                          !.llmValid = FALSE]
    /\ wizLs' = [wizLs EXCEPT !.llmChoice = "byok"]
    /\ UNCHANGED wizLog
    /\ UNCHANGED <<aggVars, rdVars, authVars, connVars, proxyVars>>

\* The API key, model or base URL field is edited.
WizEditLlmField ==
    /\ wiz.mounted
    /\ wiz.currentStep = "llm"
    /\ wiz.llmChoice = "byok" /\ wiz.selectedProvider
    /\ wiz' = [wiz EXCEPT !.llmValid = FALSE]
    /\ UNCHANGED <<wizLs, wizLog>>
    /\ UNCHANGED <<aggVars, rdVars, authVars, connVars, proxyVars>>

\* validateLLM up to its await; fieldsOk tells whether the fields the
\* provider requires are filled in.
ValidateLLMStart(fieldsOk) ==
    /\ wiz.mounted
    /\ wiz.currentStep = "llm"
    /\ wiz.llmChoice = "byok"
    /\ ~wiz.validatingLLM /\ wiz.selectedProvider
    /\ wiz' = IF fieldsOk THEN [wiz EXCEPT !.validatingLLM = TRUE] ELSE wiz
    /\ UNCHANGED <<wizLs, wizLog>>
    /\ UNCHANGED <<aggVars, rdVars, authVars, connVars, proxyVars>>

\* cirisClient.setup.validateLLM settles.
ValidateLLMSettles(valid) ==
    /\ wiz.validatingLLM
    /\ wiz' = [wiz EXCEPT !.llmValid = valid, !.validatingLLM = FALSE]
    /\ UNCHANGED <<wizLs, wizLog>>
    /\ UNCHANGED <<aggVars, rdVars, authVars, connVars, proxyVars>>

\* Continue of the BYOK panel.
WizByokContinue ==
    /\ wiz.mounted
    /\ wiz.currentStep = "llm"
    /\ wiz.llmChoice = "byok"
    /\ wiz.llmValid
    /\ wiz' = [wiz EXCEPT !.currentStep = "users"]
    /\ UNCHANGED <<wizLs, wizLog>>
    /\ UNCHANGED <<aggVars, rdVars, authVars, connVars, proxyVars>>

\* The account fields are edited.
WizEditUserForm(form) ==
    /\ wiz.mounted
    /\ wiz.currentStep = "users"
    /\ ShowLocalUserFields(wiz)
    /\ form # wiz.form
    /\ wiz' = [wiz EXCEPT !.form = form]
    /\ UNCHANGED <<wizLs, wizLog>>
    /\ UNCHANGED <<aggVars, rdVars, authVars, connVars, proxyVars>>

\* How completeSetup leaves its synchronous part: by one of its three early
\* returns, or with the setup-complete request sent.
CompleteSetupExit(w, store) ==
    IF ShowLocalUserFields(w) /\ w.form.password # w.form.passwordConfirm
    THEN "password_mismatch"
    ELSE IF ~w.llmValid /\ ~UseCirisProxy(w)
         THEN "llm_not_validated"
         ELSE IF UseCirisProxy(w) /\ ~store.googleIdToken
              THEN "no_id_token"
              ELSE "sent"

\* Mutant: the LLM validation check is left out.
MutCompleteSetupUnchecked ==
    /\ wiz.mounted
    /\ wiz.currentStep = "users"
    /\ ~CompleteDisabled(wiz)
    /\ wizLog.clicks < MaxSetupClicks
    /\ wiz' = [wiz EXCEPT !.loading = TRUE, !.completing = TRUE]
    /\ wizLog' = [clicks |-> wizLog.clicks + 1,
                  requests |-> wizLog.requests + 1,
                  last |-> "sent"]
    /\ UNCHANGED wizLs
    /\ UNCHANGED <<aggVars, rdVars, authVars, connVars, proxyVars>>
\* The Complete Setup button is clicked: completeSetup up to its await. An
\* early return before setLoading(true) leaves loading as it was; the return
\* for a missing ID token sets it to false, and the finally block again.
CompleteSetup ==
    /\ wiz.mounted
    /\ wiz.currentStep = "users"
    /\ ~CompleteDisabled(wiz)
    /\ wizLog.clicks < MaxSetupClicks
    /\ LET exit == CompleteSetupExit(wiz, wizLs)
       IN  /\ wiz' = CASE exit = "sent" ->
                            [wiz EXCEPT !.loading = TRUE, !.completing = TRUE]
                       [] exit = "no_id_token" ->
                            [wiz EXCEPT !.loading = FALSE]
                       [] OTHER -> wiz
           /\ wizLog' = [clicks |-> wizLog.clicks + 1,
                         requests |-> IF exit = "sent"
                                      THEN wizLog.requests + 1
                                      ELSE wizLog.requests,
                         last |-> exit]
    /\ UNCHANGED wizLs
    /\ UNCHANGED <<aggVars, rdVars, authVars, connVars, proxyVars>>

\* cirisClient.setup.complete settles. On success the setup flag is written,
\* the saved LLM choice removed and the wizard moves to its last step; on
\* failure the error is shown. Either way loading is cleared.
CompleteSetupSettles(ok) ==
    /\ wiz.completing
    /\ wiz' = [wiz EXCEPT !.completing = FALSE, !.loading = FALSE,
                          !.currentStep = IF ok THEN "complete" ELSE @]
    /\ wizLs' = IF ok THEN [wizLs EXCEPT !.llmChoice = "null"] ELSE wizLs
    /\ UNCHANGED wizLog
    /\ UNCHANGED <<aggVars, rdVars, authVars, connVars, proxyVars>>

WizStartState ==
    [mounted |-> FALSE, currentStep |-> "welcome", loading |-> FALSE,
     isGoogleAuth |-> FALSE, llmChoice |-> "null", showAdvanced |-> FALSE,
     selectedProvider |-> FALSE, validatingLLM |-> FALSE, llmValid |-> FALSE,
     form |-> [username |-> "", password |-> "", passwordConfirm |-> ""],
     completing |-> FALSE, loadingProviders |-> FALSE]

WizStores ==
    [authMethod : {"null", "google", "api_key"},
     llmChoice : {"null", "ciris_key", "byok"},
     googleIdToken : BOOLEAN]

\* The wizard as constructed, over what the native shell may have stored.
WizInit ==
    /\ wiz = WizStartState
    /\ wizLs \in WizStores
    /\ wizLog = [clicks |-> 0, requests |-> 0, last |-> "none"]

WizIdle ==
    /\ wiz = WizStartState
    /\ wizLs = [authMethod |-> "null", llmChoice |-> "null",
                googleIdToken |-> FALSE]
    /\ wizLog = [clicks |-> 0, requests |-> 0, last |-> "none"]

WizNext ==
    \/ WizMount
    \/ \E p \in BOOLEAN : LoadProvidersSettles(p)
    \/ WizNativeAuthReady
    \/ \E s \in {"welcome", "llm"} : WizGoTo(s)
    \/ WizGoogleContinue
    \/ \E on \in BOOLEAN : WizShowAdvanced(on)
    \/ WizSelectProvider
    \/ WizEditLlmField
    \/ \E f \in BOOLEAN : ValidateLLMStart(f)
    \/ \E v \in BOOLEAN : ValidateLLMSettles(v)
    \/ WizByokContinue
    \/ \E form \in UserForms : WizEditUserForm(form)
    \/ CompleteSetup
    \/ \E ok \in BOOLEAN : CompleteSetupSettles(ok)

-----------------------------------------------------------------------------
(* CIRISProxyClient: chat and chatStream *)

\* A string is kept as the sequence of the pieces it is concatenated from;
\* it is empty when every piece is.
IsEmptyText(s) == \A i \in 1..Len(s) : s[i] = ""

\* Date.now() and Math.random().toString(36).substring(2, 11), as text. The
\* second is empty when Math.random() returned 0.
Millis == {"1730000000000", "1730000000001"}

Randoms == {"", "k3x9q2m1z"}

GenerateInteractionId(t, r) == <<"int_", t, "_", r>>

\* A metadata object is the set of its <<key, value>> fields.
HasField(fields, key) == \E f \in fields : f[1] = key

Field(fields, key) == (CHOOSE f \in fields : f[1] = key)[2]

\* !request.metadata?.interaction_id
LacksInteractionId(request) ==
    \/ ~request.metadata.present
    \/ ~HasField(request.metadata.fields, "interaction_id")
    \/ IsEmptyText(Field(request.metadata.fields, "interaction_id"))

\* Mutant: the generated id replaces the metadata instead of joining it.
MutEnsureDropsMetadata(request, id) ==
    IF LacksInteractionId(request)
    THEN [request EXCEPT !.metadata =
            [present |-> TRUE, fields |-> {<<"interaction_id", id>>}]]
    ELSE request
\* The first statement of chat and of chatStream: a request without an
\* interaction id gets a copy of its metadata with a generated one.
EnsureInteractionId(request, id) ==
    IF LacksInteractionId(request)
    THEN [request EXCEPT !.metadata =
            [present |-> TRUE,
             fields |-> {f \in (IF request.metadata.present
                                THEN request.metadata.fields
                                ELSE {}) : f[1] # "interaction_id"}
                        \cup {<<"interaction_id", id>>}]]
    ELSE request

\* JSON.stringify of the request: a member that is undefined is left out.
Stringify(request) ==
    (IF request.model = "undefined"
     THEN {} ELSE {<<(<<"model">>), (<<request.model>>)>>})
    \cup (IF request.stream = "undefined"
          THEN {} ELSE {<<(<<"stream">>), (<<request.stream>>)>>})
    \cup (IF request.metadata.present
          THEN {<<(<<"metadata", f[1]>>), f[2]>> : f \in request.metadata.fields}
          ELSE {})

\* chat up to its fetch: the request object is updated in place and sent.
Chat(t, r) ==
    /\ Len(proxySent) < MaxProxyCalls
    /\ LET request == EnsureInteractionId(proxyReq, GenerateInteractionId(t, r))
       IN  /\ proxyReq' = request
           /\ proxySent' = Append(proxySent,
                  [method |-> "chat", given |-> proxyReq,
                   generated |-> GenerateInteractionId(t, r),
                   body |-> Stringify(request)])
    /\ UNCHANGED <<aggVars, rdVars, authVars, connVars, wizVars>>

\* chatStream up to its fetch: as chat, with stream: true in the body.
ChatStream(t, r) ==
    /\ Len(proxySent) < MaxProxyCalls
    /\ LET request == EnsureInteractionId(proxyReq, GenerateInteractionId(t, r))
       IN  /\ proxyReq' = request
           /\ proxySent' = Append(proxySent,
                  [method |-> "chatStream", given |-> proxyReq,
                   generated |-> GenerateInteractionId(t, r),
                   body |-> Stringify([request EXCEPT !.stream = "true"])])
    /\ UNCHANGED <<aggVars, rdVars, authVars, connVars, wizVars>>

CallerIds == {<<>>, <<"">>, <<"task-7">>, <<"int_", "1730000000000", "_", "">>}

\* The metadata objects a caller may pass.
CallerMetadata ==
    {ids \cup session \cup tag :
        ids \in {{}} \cup {{<<"interaction_id", i>>} : i \in CallerIds},
        session \in {{}, {<<"session_id", <<"s1">>>>}},
        tag \in {{}, {<<"tag", <<>>>>}}}

ChatRequests ==
    [model : {"undefined", "default"},
     stream : {"undefined", "false"},
     metadata : [present : {TRUE}, fields : CallerMetadata]
                \cup {[present |-> FALSE, fields |-> {}]}]

ProxyInit ==
    /\ proxyReq \in ChatRequests
    /\ proxySent = <<>>

ProxyIdle ==
    /\ proxyReq = [model |-> "undefined", stream |-> "undefined",
                   metadata |-> [present |-> FALSE, fields |-> {}]]
    /\ proxySent = <<>>

ProxyNext ==
    \/ \E t \in Millis, r \in Randoms : Chat(t, r)
    \/ \E t \in Millis, r \in Randoms : ChatStream(t, r)

-----------------------------------------------------------------------------
(* The components together *)

\* The provider with its logout() callback in use.
SessionNext ==
    \/ AuthNext
    \/ LogoutStart
    \/ \E o \in {"ok", "failed"} : LogoutSettles(o)

-----------------------------------------------------------------------------
(* Specifications *)

Init ==
    AggInit /\ RdIdle /\ AuthIdle /\ ConnIdle /\ WizIdle /\ ProxyIdle

\* Batcher and aggregator.
Spec == Init /\ [][AggNext]_vars

\* The batch timer, once started and not cleared, fires.
LiveSpec ==
    Init /\ [][AggNext]_vars /\ WF_vars(ProcessBatchedEvents)

StreamInit ==
    AggInit /\ RdInit /\ AuthIdle /\ ConnIdle /\ WizIdle /\ ProxyIdle

\* Stream reader.
StreamSpec == StreamInit /\ [][RdNext]_vars

AuthSpecInit ==
    AggInit /\ RdIdle /\ AuthInit /\ ConnIdle /\ WizIdle /\ ProxyIdle

\* Auth state machine.
AuthSpec == AuthSpecInit /\ [][AuthNext]_vars

\* The mount effect runs once the page has loaded, and every request sent
\* settles.
AuthLiveSpec ==
    /\ AuthSpecInit
    /\ [][AuthNext]_vars
    /\ WF_vars(MountEffect)
    /\ \A c \in CallIds : WF_vars(\E o \in LoginOutcomes : LoginSettles(c, o))
    /\ \A c \in CallIds : WF_vars(\E r \in SetupResponses : SetupStatusSettles(c, r))
    /\ WF_vars(\E o \in {"ok", "unauthorized", "network_error"} : GetMeSettles(o))

\* Authentication provider with logout.
\* A session opened on the home route against a configured agent.
SessionInit == AuthInit /\ pathname = "/" /\ serverSetup = "complete"

SessionSpecInit ==
    AggInit /\ RdIdle /\ SessionInit /\ ConnIdle /\ WizIdle /\ ProxyIdle

SessionSpec == SessionSpecInit /\ [][SessionNext]_vars

WizSpecInit ==
    AggInit /\ RdIdle /\ AuthIdle /\ ConnIdle /\ WizInit /\ ProxyIdle

\* Setup wizard.
WizSpec == WizSpecInit /\ [][WizNext]_vars

ProxySpecInit ==
    AggInit /\ RdIdle /\ AuthIdle /\ ConnIdle /\ WizIdle /\ ProxyInit

\* Proxy client.
ProxySpec == ProxySpecInit /\ [][ProxyNext]_vars

ConnSpecInit ==
    AggInit /\ RdIdle /\ AuthIdle /\ ConnInit /\ WizIdle /\ ProxyIdle

\* The SSE effect: connections, batcher and aggregator together.
ConnSpec == ConnSpecInit /\ [][ConnNext]_vars

\* A rejected fetch or read is delivered to the connection awaiting it, and
\* the batch timer fires.
ConnLiveSpec ==
    /\ ConnSpecInit
    /\ [][ConnNext]_vars
    /\ \A c \in ConnIds : WF_vars(AbortSettles(c))
    /\ WF_vars(ProcessBatchedEvents)

-----------------------------------------------------------------------------
(* Properties of the batcher and the aggregator *)

Flushed == delivered' # delivered

AppliedEvents == {delivered[i].ev : i \in 1..Len(delivered)}

BatchEvents(batch) == {batch[i].ev : i \in 1..Len(batch)}

Seqs(q) == {q[i].seq : i \in 1..Len(q)}

NoRepeat(q) == \A i, j \in 1..Len(q) : q[i].seq = q[j].seq => i = j

\* C3: a flush hands the whole pending queue to the aggregator as one batch
\* and leaves the queue empty, and no queued event is ever handed over twice.
C3_FlushExact ==
    [][Flushed => /\ lastBatch' = pendingEvents
                  /\ delivered' = delivered \o pendingEvents
                  /\ pendingEvents' = <<>>
                  /\ NoRepeat(delivered')]_vars

\* Two flushes have happened, the last one with a batch of several events.
C3_Witness ==
    /\ Len(lastBatch) >= 2
    /\ Len(delivered) > Len(lastBatch)
    /\ pendingEvents = <<>>

\* C4: every queued event is eventually handed to the aggregator.
C4_NoEventDropped ==
    \A n \in 1..MaxEvents :
        [](n \in Seqs(pendingEvents) => <>(n \in Seqs(delivered)))

\* The terminal-action condition as the data model states it.
C5_Terminal(e) ==
    /\ e.event_type = "action_result"
    /\ e.action_executed.present
    /\ (Includes(e.action_executed.s, <<"task_complete">>)
        \/ Includes(e.action_executed.s, <<"task_reject">>))

\* C5: a completed task stays completed under every later batch, and a task
\* becomes completed only by a batch holding a terminal action_result for it.
C5_CompletedMonotonic ==
    [][/\ \A id \in DOMAIN View :
             View[id].completed => (id \in DOMAIN View' /\ View'[id].completed)
       /\ \A id \in DOMAIN View' :
             (View'[id].completed /\ ~(id \in DOMAIN View /\ View[id].completed))
                 => \E e \in BatchEvents(pendingEvents) :
                        /\ e.task_id = id
                        /\ ~Falsy(e.thought_id)
                        /\ C5_Terminal(e)]_vars

\* A completed task has received a later batch of non-terminal events.
C5_Witness ==
    \E id \in DOMAIN View :
        /\ View[id].completed
        /\ Len(delivered) > Len(lastBatch)
        /\ \E e \in BatchEvents(lastBatch) : e.task_id = id /\ ~Falsy(e.thought_id)
        /\ \A e \in BatchEvents(lastBatch) : ~C5_Terminal(e)
        /\ \E i \in 1..(Len(delivered) - Len(lastBatch)) :
               delivered[i].ev.task_id = id /\ C5_Terminal(delivered[i].ev)

\* C6: the snapshot the updater received still shows what it showed when the
\* updater was called.
C6_PrevUnchanged == Deep(prevTasks, taskObjs) = prevDeep

\* The structure of a snapshot: task ids, thought ids in order, stage names.
Shape(view) ==
    [id \in DOMAIN view |->
        [i \in 1..Len(view[id].thoughts) |->
            <<view[id].thoughts[i].thoughtId, DOMAIN view[id].thoughts[i].stages>>]]

\* The event is the one stored under its stage (or has no stage to store),
\* its task and thought being present.
IsCurrent(view, e) ==
    \/ Falsy(e.thought_id) \/ Falsy(e.task_id)
    \/ /\ e.task_id \in DOMAIN view
       /\ \E i \in 1..Len(view[e.task_id].thoughts) :
             LET th == view[e.task_id].thoughts[i]
             IN /\ th.thoughtId = e.thought_id
                /\ e.event_type \in STAGE_NAMES =>
                      /\ e.event_type \in DOMAIN th.stages
                      /\ th.stages[e.event_type] = StageOf(e)

\* C7 as stated: a batch of events that were all applied before changes
\* nothing.
C7_ReapplyAnySeen ==
    [][(Flushed /\ BatchEvents(pendingEvents) \subseteq AppliedEvents)
          => View' = View]_vars

\* C7 amended: a batch of already-applied events adds no task, thought or
\* stage, and changes nothing at all when each of its events is the one
\* currently stored under its stage.
C7_ReapplyCurrent ==
    [][(Flushed /\ BatchEvents(pendingEvents) \subseteq AppliedEvents)
          => /\ Shape(View') = Shape(View)
             /\ (\A e \in BatchEvents(pendingEvents) : IsCurrent(View, e))
                   => View' = View]_vars

\* A stored stage event was applied a second time in a later batch.
C7_Witness ==
    /\ lastBatch # <<>>
    /\ Len(delivered) > Len(lastBatch)
    /\ \A e \in BatchEvents(lastBatch) :
          /\ e.event_type \in STAGE_NAMES
          /\ ~Falsy(e.thought_id) /\ ~Falsy(e.task_id)
          /\ IsCurrent(View, e)
          /\ \E i \in 1..(Len(delivered) - Len(lastBatch)) : delivered[i].ev = e

\* The stage events applied so far for one thought of one task.
StageEventsFor(id, th) ==
    {e \in AppliedEvents :
        e.task_id = id /\ e.thought_id = th /\ e.event_type \in STAGE_NAMES}

DistinctStages(evs) == \A a, b \in evs : a.event_type = b.event_type => a = b

\* C8: when the stage events received for a thought have distinct stage
\* names, its stage map holds exactly those stages with those events,
\* whatever the order and the batches they came in.
C8_StagesCommute ==
    \A id \in DOMAIN View :
        \A i \in 1..Len(View[id].thoughts) :
            LET th  == View[id].thoughts[i]
                evs == StageEventsFor(id, th.thoughtId)
            IN DistinctStages(evs) =>
                  /\ DOMAIN th.stages = {e.event_type : e \in evs}
                  /\ \A e \in evs : th.stages[e.event_type] = StageOf(e)

\* Three stages of one thought arrived in two batches, not in pipeline order.
C8_Witness ==
    /\ "T1" \in DOMAIN View
    /\ Len(delivered) = 3
    /\ Len(lastBatch) \in {1, 2}
    /\ delivered[1].ev.event_type = "action_result"
    /\ delivered[3].ev.event_type = "thought_start"
    /\ \E i \in 1..Len(View["T1"].thoughts) :
          LET th == View["T1"].thoughts[i]
          IN /\ DistinctStages(StageEventsFor("T1", th.thoughtId))
             /\ Cardinality(DOMAIN th.stages) = 3

\* The description of the first applied event of the task that carries one.
RECURSIVE FirstDescription(_, _)
FirstDescription(q, id) ==
    IF q = <<>> THEN ""
    ELSE LET e == Head(q).ev
         IN IF /\ e.task_id = id
               /\ ~Falsy(e.thought_id)
               /\ e.task_description \notin {Undefined, ""}
            THEN e.task_description
            ELSE FirstDescription(Tail(q), id)

\* C10: a task's description is that of the first event of the task that
\* carries one.
C10_FirstDescriptionWins ==
    \A id \in DOMAIN View :
        View[id].description = FirstDescription(delivered, id)

\* An event without a thought id or without a task id.
LacksId(e) == Falsy(e.thought_id) \/ Falsy(e.task_id)

\* The task map a batch yields when applied to the current one.
ViewAfter(events) ==
    LET st == ApplyBatch(tasks, taskObjs, events) IN Deep(st.map, st.heap)

\* C12: a flush yields the task map that the batch without its id-less
\* events yields: those events change nothing, and the events around them
\* are applied.
C12_IdlessSkipped ==
    [][Flushed =>
          View' = ViewAfter(SelectSeq(EventsOf(pendingEvents),
                                      LAMBDA e : ~LacksId(e)))]_vars

\* The last batch held an event without an id followed by an event that
\* created a task.
C12_Witness ==
    /\ Len(lastBatch) >= 2
    /\ LacksId(lastBatch[1].ev)
    /\ ~LacksId(lastBatch[2].ev)
    /\ lastBatch[2].ev.task_id \in DOMAIN View
    /\ lastBatch[2].ev.task_id \notin DOMAIN prevDeep

\* Every stage key of every thought is one of the six known stage names.
StageKeysKnown ==
    /\ Cardinality(STAGE_NAMES) = 6
    /\ \A id \in DOMAIN View :
          \A i \in 1..Len(View[id].thoughts) :
              DOMAIN View[id].thoughts[i].stages \subseteq STAGE_NAMES

KnownStage(e) == e.event_type \in STAGE_NAMES

\* C13 as stated: stage keys are known stage names, and a flush yields the
\* task map that the batch without its unknown-stage events yields.
C13_UnknownChangesNothing ==
    /\ []StageKeysKnown
    /\ [][Flushed =>
             View' = ViewAfter(SelectSeq(EventsOf(pendingEvents), KnownStage))]_vars

\* The stage entries of a task map.
StageEntries(view) ==
    UNION {UNION {{<<id, view[id].thoughts[i].thoughtId, name,
                     view[id].thoughts[i].stages[name]>> :
                       name \in DOMAIN view[id].thoughts[i].stages} :
                  i \in 1..Len(view[id].thoughts)} :
           id \in DOMAIN view}

CompletedTasks(view) == {id \in DOMAIN view : view[id].completed}

ThoughtIds(view, id) ==
    {view[id].thoughts[i].thoughtId : i \in 1..Len(view[id].thoughts)}

\* C13 amended: stage keys are known stage names, and the unknown-stage
\* events of a batch add or change no stage entry and no completed flag;
\* the only tasks and thoughts they add are the ones they name.
C13_UnknownAddsNoStage ==
    /\ []StageKeysKnown
    /\ [][Flushed =>
             LET batch   == EventsOf(pendingEvents)
                 known   == ViewAfter(SelectSeq(batch, KnownStage))
                 unknown == {e \in BatchEvents(pendingEvents) :
                                ~KnownStage(e) /\ ~LacksId(e)}
             IN /\ StageEntries(View') = StageEntries(known)
                /\ CompletedTasks(View') = CompletedTasks(known)
                /\ DOMAIN known \subseteq DOMAIN View'
                /\ \A id \in DOMAIN View' :
                      /\ id \notin DOMAIN known
                            => \E e \in unknown : e.task_id = id
                      /\ \A th \in ThoughtIds(View', id) :
                            (id \notin DOMAIN known \/ th \notin ThoughtIds(known, id))
                               => \E e \in unknown :
                                     e.task_id = id /\ e.thought_id = th]_vars

\* The last batch held an event of an unknown stage for a thought that has
\* stages stored, and a known-stage event after it.
C13_Witness ==
    /\ Len(lastBatch) >= 2
    /\ ~KnownStage(lastBatch[1].ev) /\ ~LacksId(lastBatch[1].ev)
    /\ KnownStage(lastBatch[2].ev) /\ ~LacksId(lastBatch[2].ev)
    /\ Len(delivered) > Len(lastBatch)
    /\ StageEntries(View) # {}

\* The thought ids of a task, in list order.
ThoughtList(view, id) ==
    [i \in 1..Len(view[id].thoughts) |-> view[id].thoughts[i].thoughtId]

\* C14: no step removes a task id, shortens or reorders the part of a
\* task's thought list that existed before, or removes a stage name from a
\* thought.
C14_AppendOnly ==
    [][\A id \in DOMAIN View :
          /\ id \in DOMAIN View'
          /\ Len(View'[id].thoughts) >= Len(View[id].thoughts)
          /\ SubSeq(ThoughtList(View', id), 1, Len(View[id].thoughts))
                = ThoughtList(View, id)
          /\ \A i \in 1..Len(View[id].thoughts) :
                DOMAIN View[id].thoughts[i].stages
                   \subseteq DOMAIN View'[id].thoughts[i].stages]_vars

\* A later batch added a task, a thought to an existing task and a stage
\* to an existing thought.
C14_Witness ==
    /\ Len(delivered) > Len(lastBatch)
    /\ DOMAIN prevDeep # {}
    /\ DOMAIN View # DOMAIN prevDeep
    /\ \E id \in DOMAIN prevDeep :
          /\ Len(View[id].thoughts) > Len(prevDeep[id].thoughts)
          /\ Len(prevDeep[id].thoughts) >= 1
          /\ DOMAIN View[id].thoughts[1].stages # {}

-----------------------------------------------------------------------------
(* Properties of the stream reader *)

\* C9: however the body is cut into chunks, when the stream has been read the
\* loop has called processSSEEvent exactly once per record, with the record's
\* event type and payload, and never more often before.
C9_FramingChunkIndependent ==
    /\ Len(sseCalls) <= Len(rdRecords)
    /\ \A i \in 1..Len(sseCalls) : sseCalls[i] = rdRecords[i]
    /\ rdState = "done" => sseCalls = rdRecords

\* A one-record stream was read to its end with a chunk boundary inside the
\* two-byte character and another between the two final newlines.
C9_Witness ==
    /\ rdState = "done"
    /\ Len(rdRecords) = 1
    /\ Len(sseCalls) = 1
    /\ rdCuts = {"character", "token", "newlines"}

-----------------------------------------------------------------------------
(* Properties of the SSE effect *)

\* The event the record at an origin holds at that position, as queued.
SentEvent(o) ==
    ToQueued(JsonParse(conns[o.conn].records[o.rec].data).items[o.idx])

\* Position o comes before position p in the stream of one connection.
Earlier(o, p) == o.rec < p.rec \/ (o.rec = p.rec /\ o.idx < p.idx)

\* C11: the events of one connection reach the aggregator in the order in
\* which their records were read (and, within a record, in the order of its
\* events array), each being the event its record holds; a flush takes the
\* queue in enqueue order and applies all of it, event by event, in that
\* order.
C11_ArrivalOrder ==
    /\ [](\A i, j \in 1..Len(delivered) :
            /\ delivered[i].ev = SentEvent(origin[delivered[i].seq])
            /\ (i < j /\ origin[delivered[i].seq].conn = origin[delivered[j].seq].conn)
                  => Earlier(origin[delivered[i].seq], origin[delivered[j].seq]))
    /\ [][Flushed =>
            /\ \A i, j \in 1..Len(pendingEvents) :
                  i < j => pendingEvents[i].seq < pendingEvents[j].seq
            /\ delivered' = delivered \o pendingEvents
            /\ View' = Deep(ApplyAll([map |-> tasks, heap |-> taskObjs],
                                     EventsOf(pendingEvents)).map,
                            ApplyAll([map |-> tasks, heap |-> taskObjs],
                                     EventsOf(pendingEvents)).heap)]_vars

\* Three events of one connection were applied in two batches; two of them
\* came in one record and the third in another.
C11_Witness ==
    /\ Len(delivered) = 3
    /\ Len(lastBatch) \in {1, 2}
    /\ \A i \in 1..3 : origin[delivered[i].seq].conn = 1
    /\ Cardinality({origin[delivered[i].seq].rec : i \in 1..3}) = 2

\* C15: a connection whose initial response was not successful ends with an
\* error outcome for its caller.
C15_NonOkSurfaced ==
    \A c \in ConnIds :
        (conns[c].response = "not_ok" /\ conns[c].pc = "returned")
            => conns[c].outcome = "rejected"

\* The event lists a well-formed step_update payload may hold.
ItemLists == {<<EvA>>, <<EvB, EvC>>}

\* The events a record carries: those of a step_update record whose payload
\* is the JSON text of an events list; none otherwise.
SentItems(rec) ==
    IF rec.type = "step_update" /\ \E items \in ItemLists : rec.data = Serialize(items)
    THEN CHOOSE items \in ItemLists : rec.data = Serialize(items)
    ELSE <<>>

\* The payload is JSON text cut short.
Malformed(rec) ==
    /\ rec.type = "step_update"
    /\ \E items \in ItemLists :
          \E k \in 1..(Len(Serialize(items)) - 1) :
              rec.data = SubSeq(Serialize(items), 1, k)

\* Everything queued so far, flushed or not.
Queued == {delivered[i] : i \in 1..Len(delivered)}
          \cup {pendingEvents[i] : i \in 1..Len(pendingEvents)}

\* C16: of every record a connection has read, exactly the events it
\* carries were queued (none for a malformed payload, all for a well-formed
\* one, wherever it stands among the records read), and the step that reads
\* a malformed record leaves the connection in its read loop, the connected
\* flag as it was and the error path untaken.
C16_MalformedDropped ==
    /\ [](\A c \in ConnIds : \A r \in 1..Len(conns[c].records) :
            LET sent == SentItems(conns[c].records[r])
                seqs == {n \in 1..Len(origin) :
                            origin[n].conn = c /\ origin[n].rec = r}
            IN /\ {origin[n].idx : n \in seqs} = 1..Len(sent)
               /\ Cardinality(seqs) = Len(sent)
               /\ \A n \in seqs :
                     \E q \in Queued :
                         q.seq = n /\ q.ev = ToQueued(sent[origin[n].idx]))
    /\ [][\A c \in ConnIds :
            (\E r \in (Len(conns[c].records) + 1)..Len(conns'[c].records) :
                 Malformed(conns'[c].records[r]))
               => /\ conns'[c].pc = "read"
                  /\ conns'[c].sseErrors = conns[c].sseErrors
                  /\ conns'[c].outcome = "pending"
                  /\ sseConnected' = sseConnected]_vars

\* A connection read a malformed record and, in a later read, a well-formed
\* one whose events were applied, and it is still connected and reading.
C16_Witness ==
    \E c \in ConnIds :
        /\ Len(conns[c].records) >= 2
        /\ Malformed(conns[c].records[1])
        /\ conns[c].parseErrors = 1
        /\ SentItems(conns[c].records[Len(conns[c].records)]) # <<>>
        /\ \E i \in 1..Len(delivered) :
              /\ origin[delivered[i].seq].conn = c
              /\ origin[delivered[i].seq].rec = Len(conns[c].records)
        /\ conns[c].pc = "read"
        /\ sseConnected

\* C17: an aborted connection returns; from the abort on it reads no
\* record and queues no event, and its return logs no error, clears no
\* connected flag and rejects nothing.
C17_AbortQuiet ==
    /\ \A c \in ConnIds : [](conns[c].aborted => <>(conns[c].pc = "returned"))
    /\ [][\A c \in ConnIds : conns[c].aborted =>
            /\ conns'[c].records = conns[c].records
            /\ \A n \in (Len(origin) + 1)..Len(origin') : origin'[n].conn # c
            /\ conns'[c].sseErrors = conns[c].sseErrors
            /\ conns'[c].httpErrors = conns[c].httpErrors
            /\ conns'[c].parseErrors = conns[c].parseErrors
            /\ conns'[c].outcome # "rejected"
            /\ conns'[c] # conns[c] => sseConnected' = sseConnected]_vars

\* A connection was aborted in its read loop after it had read records, and
\* has returned; a later connection is reading.
C17_Witness ==
    /\ conns[1].aborted
    /\ conns[1].pc = "returned"
    /\ Len(conns[1].records) >= 1
    /\ connCount = 2
    /\ conns[2].pc = "read"
    /\ Len(conns[2].records) >= 1

\* C25: a connection that has ended stays ended, and a connection is
\* opened only by a run of the effect, which needs its cleanup to have run
\* before: nothing reconnects on its own.
C25_NoAutoReconnect ==
    [][/\ \A c \in ConnIds :
             conns[c].pc = "returned" => conns'[c].pc = "returned"
       /\ connCount' # connCount =>
             /\ ~effectActive /\ effectActive'
             /\ connCount' = connCount + 1
             /\ conns'[connCount'].pc = "fetch"
       /\ \A c \in ConnIds :
             (conns[c].pc = "none" /\ conns'[c].pc # "none")
                => connCount' # connCount]_vars

\* The only connection ended on its own (end of stream, refused or failed)
\* while the effect stayed mounted, and its queued events were flushed
\* afterwards.
C25_Witness ==
    /\ connCount = 1
    /\ effectActive
    /\ conns[1].pc = "returned"
    /\ ~conns[1].aborted
    /\ conns[1].response = "ok"
    /\ delivered # <<>>
    /\ batchTimeout = "dead"

\* C30: the connected flag is set only while a connection that was not
\* aborted is in its read loop.
C30_IndicatorTruthful ==
    sseConnected => \E c \in ConnIds : conns[c].pc = "read" /\ ~conns[c].aborted

-----------------------------------------------------------------------------
(* Properties of the auth state machine *)

Abs(x) == IF x < 0 THEN -x ELSE x

\* C1: no two navigations to /setup are issued within 5 seconds of each
\* other.
C1_OneNavigationPerWindow ==
    \A i, j \in 1..Len(navs) :
        i # j => Abs(navs[i].t - navs[j].t) >= RedirectWindowMs

\* C2: a checkNativeAuth that returned through the loop guard leaves the
\* machine authenticated: a user is set and loading is false.
C2_GuardShortCircuitsToAuthenticated ==
    \A c \in CallIds :
        (calls[c].pc = "returned_true" /\ calls[c].viaGuard)
            => (user # "null" /\ loading = FALSE)


\* The routes on which the mount effect skips the auth check.
OpenRoutes == {"/login", "/manager/agents"}

HasReturned(c) == calls[c].pc \in {"returned_true", "returned_false"}

\* The call set the user.
Authenticated(c) == calls[c].branch # "none"

\* C19: checkAuth is not started before the mount effect's checkNativeAuth
\* has returned, and once that has returned checkAuth was started exactly
\* when the call did not authenticate the session.
C19_CheckAuthIffNotRestored ==
    /\ ~HasReturned(0) => checkAuthPc = "idle"
    /\ HasReturned(0) => (checkAuthPc # "idle" <=> ~Authenticated(0))

\* The call navigated to /setup on the page now loaded.
NavigatedBy(c) ==
    \E i \in 1..Len(navs) : navs[i].call = c /\ navs[i].page = pageLoads

\* C20 as stated: a checkNativeAuth call that authenticated the session on
\* a route other than /setup while the server holds setup to be required
\* has navigated to /setup by the time it returns, whatever the local flag.
C20_SetupRequiredNavigates ==
    \A c \in CallIds :
        (/\ HasReturned(c)
         /\ Authenticated(c)
         /\ ~calls[c].viaGuard
         /\ ~OnSetupPath(pathname)
         /\ serverSetup = "required")
            => NavigatedBy(c)

\* C20 amended: such a call has navigated to /setup when the local flag
\* was "true" at its start and the server answered that setup is required;
\* when the flag was not "true" the call neither asks the server nor
\* navigates.
C20_FlaggedSetupNavigates ==
    \A c \in CallIds :
        /\ (/\ HasReturned(c)
            /\ Authenticated(c)
            /\ ~OnSetupPath(pathname)
            /\ calls[c].showSetupFlag
            /\ calls[c].resp = "required")
               => NavigatedBy(c)
        /\ ~calls[c].showSetupFlag
               => /\ ~NavigatedBy(c)
                  /\ calls[c].pc # "await_setup"
                  /\ calls[c].resp = "none"

\* A call logged in with the flag set, was answered "required" and
\* navigated to /setup.
C20_Witness ==
    \E c \in CallIds :
        /\ HasReturned(c)
        /\ calls[c].branch = "login"
        /\ calls[c].showSetupFlag
        /\ calls[c].resp = "required"
        /\ NavigatedBy(c)
        /\ navPending

\* C21: after a login or an identity fetch failed for another reason than
\* 401, the session has a user.
C21_FallbackOnFailure ==
    /\ \A c \in CallIds : calls[c].login = "network_error" => user # "null"
    /\ getMeResult = "network_error" => user # "null"

\* C22: after a login or an identity fetch was answered 401, the session
\* has no user and no stored or in-memory token.
C22_UnauthorizedClears ==
    /\ \A c \in CallIds :
          calls[c].login = "unauthorized"
             => user = "null" /\ ~ls.nativeAuthToken /\ ~sdkAuth
    /\ getMeResult = "unauthorized" => user = "null" /\ ~sdkAuth

\* C28: no navigation to /setup is issued from the /setup route; the step
\* in which a call is answered that setup is complete navigates nowhere and
\* leaves ciris_show_setup "false", and that call never navigates.
C28_NoNavigationWhenNotNeeded ==
    /\ [](\A i \in 1..Len(navs) : ~OnSetupPath(navs[i].from))
    /\ [](\A c \in CallIds : calls[c].resp = "complete" => ~NavigatedBy(c))
    /\ [][\A c \in CallIds :
            (calls[c].pc = "await_setup" /\ calls'[c].resp = "complete")
               => /\ navs' = navs
                  /\ navPending' = navPending
                  /\ ss' = ss
                  /\ ls'.showSetup = "false"]_vars

\* A call that began with the flag set was answered that setup is
\* complete and stayed on its route.
C28_Witness ==
    \E c \in CallIds :
        /\ calls[c].resp = "complete"
        /\ calls[c].showSetupFlag
        /\ calls[c].localFlag = "true"
        /\ calls[c].branch = "login"
        /\ ls.showSetup = "false"
        /\ navs = <<>>

\* C29: an event that finds the session flag set changes nothing; an event
\* that finds it clear sets it and starts one checkNativeAuth call; only the
\* setup page's mount effect clears the flag.
C29_EventOncePerFlag ==
    [][/\ nativeEvents' = nativeEvents + 1 =>
             IF ss.eventHandled
             THEN /\ UNCHANGED <<ls, ss, user, loading, calls, checkAuthPc,
                                 remoteCalls, navs, navPending, sdkAuth, pathname>>
             ELSE /\ ss'.eventHandled
                  /\ calls'[nativeEvents'].pc # "idle"
                  /\ \A c \in CallIds \ {nativeEvents'} : calls'[c] = calls[c]
       /\ \A c \in CallIds \ {0} :
             (calls[c].pc = "idle" /\ calls'[c].pc # "idle")
                => ~ss.eventHandled /\ ss'.eventHandled /\ c = nativeEvents'
       /\ (ss.eventHandled /\ ~ss'.eventHandled)
             => ~setupMounted /\ setupMounted' /\ OnSetupPath(pathname)]_vars

\* Two events reached one page: the first started a call, the second was
\* ignored.
C29_Witness ==
    /\ nativeEvents = 2
    /\ calls[1].pc # "idle"
    /\ calls[2].pc = "idle"
    /\ ss.eventHandled

\* C27: once the provider has mounted, loading becomes false.
C27_LoadingEventuallyFalse == (page = "mounted") ~> ~loading

\* C23: after logout() has returned, user is null, whether the remote logout
\* call succeeded or failed.
C23_LogoutClearsUser ==
    [][(logoutPc = "await_logout" /\ logoutPc' = "done") => user' = "null"]_vars

-----------------------------------------------------------------------------
(* Properties of the setup wizard *)

\* What the wizard must hold for a submission: matching passwords where the
\* account fields are shown, and a validated LLM configuration or the proxy
\* with a Google ID token.
SetupAllowed ==
    /\ ~wiz.isGoogleAuth => wiz.form.password = wiz.form.passwordConfirm
    /\ wiz.llmValid \/ (wiz.llmChoice = "ciris_key" /\ wizLs.googleIdToken)

\* C24: completeSetup sends the setup-complete request only when the
\* passwords match (for users who are not signed in with Google) and the LLM
\* configuration is validated or the proxy is chosen with a Google ID token
\* stored; otherwise it sends nothing, leaves the wizard step as it is and
\* loading is false when it returns.
C24_SubmissionBlocked ==
    [][/\ wizLog'.requests # wizLog.requests =>
             /\ SetupAllowed
             /\ wizLog'.clicks = wizLog.clicks + 1
       /\ (wizLog'.clicks # wizLog.clicks /\ ~SetupAllowed) =>
             /\ wizLog'.requests = wizLog.requests
             /\ ~wiz'.completing
             /\ wiz'.currentStep = wiz.currentStep
             /\ ~wiz'.loading]_vars

\* A request was sent and failed, and a later click was stopped because the
\* LLM configuration was no longer validated.
C24_Witness ==
    /\ wizLog.requests = 1
    /\ wizLog.clicks = 2
    /\ wizLog.last = "llm_not_validated"
    /\ wiz.currentStep = "users"
    /\ ~wiz.loading

-----------------------------------------------------------------------------
(* Properties of the proxy client *)

\* The interaction ids among a set of metadata fields.
IdsOf(fields) == {f[2] : f \in {g \in fields : g[1] = "interaction_id"}}

OtherFields(fields) == {f \in fields : f[1] # "interaction_id"}

\* The metadata fields of a request body.
BodyMetadata(body) ==
    {<<f[1][2], f[2]>> : f \in {g \in body : g[1][1] = "metadata"}}

GivenMetadata(e) ==
    IF e.given.metadata.present THEN e.given.metadata.fields ELSE {}

\* C26: every request sent by chat and chatStream carries a non-empty
\* metadata.interaction_id; an id the caller supplied is sent unchanged, one
\* is generated only when the caller supplied none, and the other metadata
\* fields are sent as given.
C26_InteractionIdCarried ==
    \A i \in 1..Len(proxySent) :
        LET e == proxySent[i]
            sentIds == IdsOf(BodyMetadata(e.body))
            suppliedIds == {g \in IdsOf(GivenMetadata(e)) : \E k \in 1..Len(g) : g[k] # ""}
        IN  /\ Cardinality(sentIds) = 1
            /\ \A id \in sentIds : \E k \in 1..Len(id) : id[k] # ""
            /\ suppliedIds # {} => sentIds = suppliedIds
            /\ suppliedIds = {} => sentIds = {e.generated}
            /\ OtherFields(BodyMetadata(e.body)) = OtherFields(GivenMetadata(e))

\* chatStream was given metadata with an empty interaction id and another
\* field, and sent it with a generated id.
C26_Witness ==
    \E i \in 1..Len(proxySent) :
        LET e == proxySent[i]
        IN  /\ e.method = "chatStream"
            /\ IdsOf(GivenMetadata(e)) = {<<>>}
            /\ OtherFields(GivenMetadata(e)) # {}
            /\ IdsOf(BodyMetadata(e.body)) = {e.generated}

====
